---- MODULE Spec2Model ----
(***************************************************************************)
(* Py-PDF-Compare: the page aligner (PDFComparator.align_pages), the       *)
(* report loop (PDFComparator.compare_visuals) and the word highlighter    *)
(* (PDFComparator._add_comparison_page) of src/pdf_compare/comparator.py,  *)
(* and the desktop front end (App) of src/pdf_compare/gui.py.              *)
(*                                                                         *)
(* Python indices are kept 0-based and ranges half-open, as in the source; *)
(* element k of a Python list s is s[k+1] here.  A page text is a tuple of *)
(* one-character strings, a word list a tuple of word records.            *)
(***************************************************************************)
EXTENDS Integers, Sequences, FiniteSets, TLC

VARIABLES
    doc_a,        \* document A: its pages (text, words, rect), as fitz.open(file_path_a)
    doc_b,        \* document B
    pc,           \* where the call is: "align", "apply", "break", "visuals", "pair",
                  \* "done", "raised"; in the raster report "raster", "raster_done",
                  \* "raster_raised"
    i,            \* align_pages: cursor into text_a
    j,            \* align_pages: cursor into text_b
    alignments,   \* align_pages: the list being built
    current_similarity, \* align_pages: the ratio of the pages under the cursors
    best_match,   \* align_pages: the best alignment found by the lookahead
    opcodes,      \* compare_visuals: the plan it iterates (align_pages' return value)
    op_idx,       \* compare_visuals: number of opcodes already consumed
    output_doc,   \* compare_visuals: the pages added to the report so far
    app,          \* gui.App: file paths, button states and result_queue
    threads,      \* gui.App: the worker threads started so far (run_comparison)
    mainloop      \* gui.App: the Tk main loop: the running handler, the pending
                  \* after() callbacks and the results handled so far

\* the variables of a PDFComparator call
comparator == <<doc_a, doc_b, pc, i, j, alignments, current_similarity, best_match,
                opcodes, op_idx, output_doc>>

\* the variables of the front end
gui == <<app, threads, mainloop>>

vars == <<doc_a, doc_b, pc, i, j, alignments, current_similarity, best_match,
          opcodes, op_idx, output_doc, app, threads, mainloop>>

-----------------------------------------------------------------------------
(* Bounds of the model.                                                    *)

\* longest document (pages) drawn from BasePages
MaxPages == 3
\* longest word list of a page in the word-diff specification
MaxWords == 3
\* most pages per side covered by a hand-made plan
MaxPlanPages == 2
\* longest page text (tokens) in the page-text specification
MaxTokens == 3

-----------------------------------------------------------------------------
(* Small helpers.                                                          *)

Min(x, y) == IF x < y THEN x ELSE y
Max(x, y) == IF x > y THEN x ELSE y

SeqsUpTo(S, n) == UNION {[1..m -> S] : m \in 0..n}

RECURSIVE SumSeq(_)
SumSeq(s) == IF s = <<>> THEN 0 ELSE Head(s) + SumSeq(Tail(s))

RECURSIVE Concat(_)
Concat(ss) == IF ss = <<>> THEN <<>> ELSE Head(ss) \o Concat(Tail(ss))

\* Python's None for a page index
NoPage == -1

-----------------------------------------------------------------------------
(* difflib.SequenceMatcher(None, a, b) as the source uses it: no junk      *)
(* function, and autojunk left at its default: when b has 200 or more      *)
(* elements, those that occur more than len(b) // 100 + 1 times in b are   *)
(* "popular" and are left out of the index b2j that find_longest_match     *)
(* searches; they can still be matched when a block is extended.           *)

\* how often e occurs in b
Occurrences(b, e) == Cardinality({n \in 1..Len(b) : b[n] = e})

\* __chain_b: the popular elements of b, purged from b2j
Popular(b) ==
    IF Len(b) >= 200
    THEN {e \in {b[n] : n \in 1..Len(b)} : Occurrences(b, e) > Len(b) \div 100 + 1}
    ELSE {}

MaxOf(S) == CHOOSE n \in S : \A m \in S : m <= n
MinOf(S) == CHOOSE n \in S : \A m \in S : n <= m

\* length of the common run a[x:] / b[y:] inside a[:ahi], b[:bhi]: the
\* number of equal pairs before the first unequal one or the end
RunLen(a, b, x, y, ahi, bhi) ==
    IF x < ahi /\ y < bhi /\ a[x + 1] = b[y + 1]
    THEN MinOf({m \in 1..MinOf({ahi - x, bhi - y}) :
                   \/ m = MinOf({ahi - x, bhi - y})
                   \/ a[x + m + 1] # b[y + m + 1]})
    ELSE 0

\* length of the common run a[:x] / b[:y], read backwards, inside a[alo:], b[blo:]
BackLen(a, b, x, y, alo, blo) ==
    IF x > alo /\ y > blo /\ a[x] = b[y]
    THEN MinOf({m \in 1..MinOf({x - alo, y - blo}) :
                   \/ m = MinOf({x - alo, y - blo})
                   \/ a[x - m] # b[y - m]})
    ELSE 0

\* j2len: length of the run a[x:] / b[y:] inside a[:ahi], b[:bhi] that the
\* index b2j sees, made of elements of b that are not popular
IndexedRunLen(a, b, x, y, ahi, bhi, popular) ==
    IF x < ahi /\ y < bhi /\ b[y + 1] \notin popular /\ a[x + 1] = b[y + 1]
    THEN MinOf({m \in 1..MinOf({ahi - x, bhi - y}) :
                   \/ m = MinOf({ahi - x, bhi - y})
                   \/ b[y + m + 1] \in popular
                   \/ a[x + m + 1] # b[y + m + 1]})
    ELSE 0

\* bestsize after the main loop of find_longest_match: the size of the
\* longest indexed block inside a[alo:ahi], b[blo:bhi]
LongestIndexed(a, b, alo, ahi, blo, bhi, popular) ==
    MaxOf({0} \cup {IndexedRunLen(a, b, c[1], c[2], ahi, bhi, popular) :
                       c \in (alo..(ahi - 1)) \X (blo..(bhi - 1))})

\* the earliest start in a of an indexed block of size k
BestI(a, b, alo, ahi, blo, bhi, k, popular) ==
    MinOf({x \in alo..(ahi - 1) :
              \E y \in blo..(bhi - 1) :
                  IndexedRunLen(a, b, x, y, ahi, bhi, popular) = k})

\* the earliest start in b of an indexed block of size k that starts at x in a
BestJ(a, b, x, ahi, blo, bhi, k, popular) ==
    MinOf({y \in blo..(bhi - 1) : IndexedRunLen(a, b, x, y, ahi, bhi, popular) = k})

BlockAtI(a, b, x, ahi, blo, bhi, k, popular) ==
    <<x, BestJ(a, b, x, ahi, blo, bhi, k, popular), k>>

\* (besti, bestj, bestsize) after the main loop: of the longest indexed
\* blocks the one starting earliest in a, and of those the one starting
\* earliest in b; (alo, blo, 0) if none
BlockOfSize(a, b, alo, ahi, blo, bhi, k, popular) ==
    IF k = 0 THEN <<alo, blo, 0>>
    ELSE BlockAtI(a, b, BestI(a, b, alo, ahi, blo, bhi, k, popular),
                  ahi, blo, bhi, k, popular)

\* the block m moved back by n elements and grown by n in front
GrownBack(m, n) == <<m[1] - n, m[2] - n, m[3] + n>>

\* the block m grown by n elements at its end
GrownForward(m, n) == <<m[1], m[2], m[3] + n>>

\* the two "while ... and not isbjunk(...) and a[...] == b[...]" loops of
\* find_longest_match: the block is extended by equal elements on both ends,
\* popular ones included (no element is junk, so the two junk loops add none)
Extend(a, b, alo, ahi, blo, bhi, m) ==
    GrownForward(GrownBack(m, BackLen(a, b, m[1], m[2], alo, blo)),
                 RunLen(a, b, m[1] + m[3], m[2] + m[3], ahi, bhi))

\* find_longest_match: the longest indexed block a[x:x+k] == b[y:y+k] inside
\* a[alo:ahi], b[blo:bhi], of the longest the one starting earliest in a, and
\* of those the one starting earliest in b, (alo, blo, 0) if none; then
\* extended on both ends.
find_longest_match(a, b, alo, ahi, blo, bhi) ==
    Extend(a, b, alo, ahi, blo, bhi,
           BlockOfSize(a, b, alo, ahi, blo, bhi,
                       LongestIndexed(a, b, alo, ahi, blo, bhi, Popular(b)),
                       Popular(b)))

\* the size of the block find_longest_match returns
BestSize(a, b, alo, ahi, blo, bhi) == find_longest_match(a, b, alo, ahi, blo, bhi)[3]

\* the recursion of get_matching_blocks on the pieces left and right of the
\* longest match m, in sorted order
RECURSIVE BlocksIn(_, _, _, _, _, _)
RECURSIVE BlocksAround(_, _, _, _, _, _, _)
BlocksAround(a, b, alo, ahi, blo, bhi, m) ==
    IF m[3] = 0 THEN <<>>
    ELSE (IF alo < m[1] /\ blo < m[2]
          THEN BlocksIn(a, b, alo, m[1], blo, m[2]) ELSE <<>>)
         \o <<m>>
         \o (IF m[1] + m[3] < ahi /\ m[2] + m[3] < bhi
             THEN BlocksIn(a, b, m[1] + m[3], ahi, m[2] + m[3], bhi) ELSE <<>>)

BlocksIn(a, b, alo, ahi, blo, bhi) ==
    BlocksAround(a, b, alo, ahi, blo, bhi,
                 find_longest_match(a, b, alo, ahi, blo, bhi))

\* get_matching_blocks collapses adjacent blocks into one
RECURSIVE Collapse(_, _)
Collapse(blocks, cur) ==
    IF blocks = <<>> THEN (IF cur[3] > 0 THEN <<cur>> ELSE <<>>)
    ELSE LET n == Head(blocks)
         IN  IF cur[1] + cur[3] = n[1] /\ cur[2] + cur[3] = n[2]
             THEN Collapse(Tail(blocks), <<cur[1], cur[2], cur[3] + n[3]>>)
             ELSE (IF cur[3] > 0 THEN <<cur>> ELSE <<>>) \o Collapse(Tail(blocks), n)

\* matching blocks without the closing sentinel
get_matching_blocksNoSentinel(a, b) ==
    Collapse(BlocksIn(a, b, 0, Len(a), 0, Len(b)), <<0, 0, 0>>)

\* get_matching_blocks, with its closing sentinel (len(a), len(b), 0)
get_matching_blocks(a, b) ==
    Collapse(BlocksIn(a, b, 0, Len(a), 0, Len(b)), <<0, 0, 0>>)
        \o << <<Len(a), Len(b), 0>> >>

\* the sum of the block sizes
RECURSIVE SumSizes(_)
SumSizes(blocks) ==
    IF blocks = <<>> THEN 0 ELSE Head(blocks)[3] + SumSizes(Tail(blocks))

\* a count of the matching blocks instead of the elements in them
MatchCountBlocks(a, b) == Len(get_matching_blocks(a, b)) - 1

\* number of matched elements
MatchCount(a, b) == SumSizes(get_matching_blocks(a, b))

\* a ratio that forgets to count the matches on both sides
ratioNotDoubled(a, b) ==
    IF Len(a) + Len(b) = 0 THEN <<1, 1>>
    ELSE <<MatchCount(a, b), Len(a) + Len(b)>>

\* a ratio that returns 0.0 instead of 1.0 when both sequences are empty
ratioEmptyZero(a, b) ==
    IF Len(a) + Len(b) = 0 THEN <<0, 1>>
    ELSE <<2 * MatchCount(a, b), Len(a) + Len(b)>>

\* ratio(): 2.0 * matches / (len(a) + len(b)), and 1.0 when both are empty.
\* The value is kept as the exact fraction <<numerator, denominator>>; the
\* source compares the correctly rounded doubles, which order as the fractions
\* do for operands this small (and 6.0/10 is the double 0.6).
ratio(a, b) ==
    IF Len(a) + Len(b) = 0 THEN <<1, 1>>
    ELSE <<2 * MatchCount(a, b), Len(a) + Len(b)>>

\* r > s on fractions with positive denominators
Greater(r, s) == r[1] * s[2] > s[1] * r[2]

\* the tag of the gap between position (x, y) and the next matching block m
GapTag(x, y, m) ==
    IF x < m[1] /\ y < m[2] THEN "replace"
    ELSE IF x < m[1] THEN "delete"
    ELSE IF y < m[2] THEN "insert"
    ELSE ""

\* an 'equal' opcode for every matching block, the empty sentinel included
OpsAtAlwaysEqual(x, y, m) ==
    (IF GapTag(x, y, m) # ""
     THEN <<[tag |-> GapTag(x, y, m), i1 |-> x, i2 |-> m[1], j1 |-> y, j2 |-> m[2]]>>
     ELSE <<>>)
    \o <<[tag |-> "equal", i1 |-> m[1], i2 |-> m[1] + m[3],
          j1 |-> m[2], j2 |-> m[2] + m[3]]>>

\* what get_opcodes appends for the matching block m, reached at (x, y)
OpsAt(x, y, m) ==
    (IF GapTag(x, y, m) # ""
     THEN <<[tag |-> GapTag(x, y, m), i1 |-> x, i2 |-> m[1], j1 |-> y, j2 |-> m[2]]>>
     ELSE <<>>)
    \o (IF m[3] > 0
        THEN <<[tag |-> "equal", i1 |-> m[1], i2 |-> m[1] + m[3],
                j1 |-> m[2], j2 |-> m[2] + m[3]]>>
        ELSE <<>>)

\* get_opcodes: the edit script read off the matching blocks
RECURSIVE OpcodesFrom(_, _, _)
OpcodesFrom(blocks, x, y) ==
    IF blocks = <<>> THEN <<>>
    ELSE OpsAt(x, y, Head(blocks))
         \o OpcodesFrom(Tail(blocks), Head(blocks)[1] + Head(blocks)[3],
                        Head(blocks)[2] + Head(blocks)[3])

get_opcodes(a, b) == OpcodesFrom(get_matching_blocks(a, b), 0, 0)

-----------------------------------------------------------------------------
(* Pages and documents.  A page carries what the source reads from it: its *)
(* text (page.get_text()), its words with their boxes                      *)
(* (page.get_text("words")) and its rectangle (page.rect).                 *)

Page(t, w, wd, ht) == [text |-> t, words |-> w, width |-> wd, height |-> ht]

\* the k-th word (0-based) of a line of words, with its box (x0, y0, x1, y1)
Wd(t, k) == [text |-> t, bbox |-> <<10 * k, 10, 10 * k + 8, 20>>]

WordsOf(ts) == [k \in 1..Len(ts) |-> Wd(ts[k], k - 1)]

PageAB    == Page(<<"a", "b">>, WordsOf(<<"Hello">>), 100, 100)
PageABC   == Page(<<"a", "b", "c">>, WordsOf(<<"Hello", "World">>), 100, 100)
PageC     == Page(<<"c">>, WordsOf(<<"Foo">>), 80, 120)
PageBlank == Page(<<>>, <<>>, 100, 100)

\* ratios: AB/ABC 0.8, ABC/C 0.5, AB/C 0, Blank/Blank 1, Blank/other 0
BasePages == {PageAB, PageABC, PageC, PageBlank}

\* the pages of the scenarios of the specification and of verify_alignment.py
PageAlpha == Page(<<"a", "l", "p", "h", "a", " ", "c", "o", "n", "t", "e", "n", "t">>, WordsOf(<<"alpha", "content">>), 100, 100)
PageBeta  == Page(<<"b", "e", "t", "a", " ", "c", "o", "n", "t", "e", "n", "t">>, WordsOf(<<"beta", "content">>), 100, 100)
PageNew   == Page(<<"n", "e", "w", " ", "p", "a", "g", "e">>, WordsOf(<<"new", "page">>), 100, 100)
PageX     == Page(<<"x">>, WordsOf(<<"x">>), 100, 100)
PageY     == Page(<<"y">>, WordsOf(<<"y">>), 100, 100)
PageZ     == Page(<<"z">>, WordsOf(<<"z">>), 100, 100)

ScenarioA_a == <<PageAlpha, PageBeta>>
ScenarioA_b == <<PageAlpha, PageNew, PageBeta>>
ScenarioB_a == <<PageX, PageY, PageZ>>
ScenarioB_b == <<PageX, PageZ>>

ScenarioDocs == {ScenarioA_a, ScenarioA_b, ScenarioB_a, ScenarioB_b}

Docs == SeqsUpTo(BasePages, MaxPages) \cup ScenarioDocs

\* extract_text: one text per page, "" for a page without text
extract_text(doc) == [k \in 1..Len(doc) |-> doc[k].text]

text_a == extract_text(doc_a)
text_b == extract_text(doc_b)
len_a == Len(text_a)
len_b == Len(text_b)

-----------------------------------------------------------------------------
(* align_pages                                                             *)

SIMILARITY_THRESHOLD == <<6, 10>>
LOOKAHEAD_WINDOW == 3

Op(tag, i1, i2, j1, j2) == [tag |-> tag, i1 |-> i1, i2 |-> i2, j1 |-> j1, j2 |-> j2]

\* a loop body that takes any candidate better than best_match, also one at
\* or below the threshold
PickNoThreshold(similarity, best, type, x, y, skip) ==
    IF Greater(similarity, best.similarity)
    THEN [type |-> type, i |-> x, j |-> y, similarity |-> similarity, skip |-> skip]
    ELSE best

\* a loop body that also takes a candidate as good as best_match
PickOnTie(similarity, best, type, x, y, skip) ==
    IF ~Greater(best.similarity, similarity)
       /\ Greater(similarity, SIMILARITY_THRESHOLD)
    THEN [type |-> type, i |-> x, j |-> y, similarity |-> similarity, skip |-> skip]
    ELSE best

\* the body of both lookahead loops: the candidate replaces best_match when
\* its similarity beats both best_match's and the threshold
Pick(similarity, best, type, x, y, skip) ==
    IF Greater(similarity, best.similarity)
       /\ Greater(similarity, SIMILARITY_THRESHOLD)
    THEN [type |-> type, i |-> x, j |-> y, similarity |-> similarity, skip |-> skip]
    ELSE best

\* for skip_j in range(1, min(LOOKAHEAD_WINDOW, len_b - j)), from skip_j = k on
RECURSIVE LookaheadB(_, _, _, _, _, _)
LookaheadB(ta, tb, x, y, k, best) ==
    IF k >= Min(LOOKAHEAD_WINDOW, Len(tb) - y) THEN best
    ELSE LookaheadB(ta, tb, x, y, k + 1,
             Pick(ratio(ta[x + 1], tb[y + k + 1]), best, "insert", x, y + k, k))

\* a lookahead into A that stops one page early
RECURSIVE LookaheadAShort(_, _, _, _, _, _)
LookaheadAShort(ta, tb, x, y, k, best) ==
    IF k >= Min(LOOKAHEAD_WINDOW, Len(ta) - x) - 1 THEN best
    ELSE LookaheadAShort(ta, tb, x, y, k + 1,
             Pick(ratio(ta[x + k + 1], tb[y + 1]), best, "delete", x + k, y, k))

\* for skip_i in range(1, min(LOOKAHEAD_WINDOW, len_a - i)), from skip_i = k on
RECURSIVE LookaheadA(_, _, _, _, _, _)
LookaheadA(ta, tb, x, y, k, best) ==
    IF k >= Min(LOOKAHEAD_WINDOW, Len(ta) - x) THEN best
    ELSE LookaheadA(ta, tb, x, y, k + 1,
             Pick(ratio(ta[x + k + 1], tb[y + 1]), best, "delete", x + k, y, k))

\* the two lookahead loops in the other order: A first, then B
LookaheadAFirst(ta, tb, x, y, current) ==
    LookaheadB(ta, tb, x, y, 1,
        LookaheadA(ta, tb, x, y, 1,
            [type |-> "equal", i |-> x, j |-> y, similarity |-> current, skip |-> 0]))

\* best_match after both lookahead loops, from the current similarity (the
\* initial dict has no 'skip' key; it is 0 here)
Lookahead(ta, tb, x, y, current) ==
    LookaheadA(ta, tb, x, y, 1,
        LookaheadB(ta, tb, x, y, 1,
            [type |-> "equal", i |-> x, j |-> y, similarity |-> current, skip |-> 0]))

\* the locals before their first assignment
Unset == [type |-> "unset", i |-> 0, j |-> 0, similarity |-> <<0, 1>>, skip |-> 0]

\* while True: only the two break branches leave the loop
LoopConditionAlways == TRUE

\* a loop that runs only while both cursors are in range
LoopConditionAnd == i < len_a /\ j < len_b

\* while i < len_a or j < len_b
LoopCondition == ~(i >= len_a /\ j >= len_b)

InLoop == pc = "align" /\ LoopCondition

\* if i >= len_a: append ('insert', i, i, j, len_b); break
AlignInsertTail ==
    /\ InLoop
    /\ i >= len_a
    /\ alignments' = Append(alignments, Op("insert", i, i, j, len_b))
    /\ pc' = "break"
    /\ UNCHANGED <<doc_a, doc_b, i, j, current_similarity, best_match,
                   opcodes, op_idx, output_doc>>
    /\ UNCHANGED gui

\* elif j >= len_b: append ('delete', i, len_a, j, j); break
AlignDeleteTail ==
    /\ InLoop
    /\ i < len_a
    /\ j >= len_b
    /\ alignments' = Append(alignments, Op("delete", i, len_a, j, j))
    /\ pc' = "break"
    /\ UNCHANGED <<doc_a, doc_b, i, j, current_similarity, best_match,
                   opcodes, op_idx, output_doc>>
    /\ UNCHANGED gui

\* else: current_similarity and the two lookahead loops
AlignProbe ==
    /\ InLoop
    /\ i < len_a
    /\ j < len_b
    /\ current_similarity' = ratio(text_a[i + 1], text_b[j + 1])
    /\ best_match' = Lookahead(text_a, text_b, i, j, current_similarity')
    /\ pc' = "apply"
    /\ UNCHANGED <<doc_a, doc_b, i, j, alignments, opcodes, op_idx, output_doc>>
    /\ UNCHANGED gui

\* an insert step that leaves the cursor of B where it was
AlignInsertStuck ==
    /\ pc = "apply"
    /\ best_match.type = "insert"
    /\ alignments' = Append(alignments, Op("insert", i, i, j, best_match.j))
    /\ j' = j
    /\ pc' = "align"
    /\ UNCHANGED <<doc_a, doc_b, i, current_similarity, best_match,
                   opcodes, op_idx, output_doc>>
    /\ UNCHANGED gui

\* an insert step that records one page whatever the skip
AlignInsertOnePage ==
    /\ pc = "apply"
    /\ best_match.type = "insert"
    /\ alignments' = Append(alignments, Op("insert", i, i, j, j + 1))
    /\ j' = best_match.j
    /\ pc' = "align"
    /\ UNCHANGED <<doc_a, doc_b, i, current_similarity, best_match,
                   opcodes, op_idx, output_doc>>
    /\ UNCHANGED gui

\* an insert step that also moves the cursor of A
AlignInsertAdvancesBoth ==
    /\ pc = "apply"
    /\ best_match.type = "insert"
    /\ alignments' = Append(alignments, Op("insert", i, i, j, best_match.j))
    /\ i' = i + 1
    /\ j' = best_match.j
    /\ pc' = "align"
    /\ UNCHANGED <<doc_a, doc_b, current_similarity, best_match,
                   opcodes, op_idx, output_doc>>
    /\ UNCHANGED gui

\* if best_match['type'] == 'insert'
AlignInsert ==
    /\ pc = "apply"
    /\ best_match.type = "insert"
    /\ alignments' = Append(alignments, Op("insert", i, i, j, best_match.j))
    /\ j' = best_match.j
    /\ pc' = "align"
    /\ UNCHANGED <<doc_a, doc_b, i, current_similarity, best_match,
                   opcodes, op_idx, output_doc>>
    /\ UNCHANGED gui

\* a delete step that adds the skip to the index of the matched page
AlignDeleteAddsSkip ==
    /\ pc = "apply"
    /\ best_match.type = "delete"
    /\ alignments' = Append(alignments, Op("delete", i, best_match.i, j, j))
    /\ i' = best_match.i + best_match.skip
    /\ pc' = "align"
    /\ UNCHANGED <<doc_a, doc_b, j, current_similarity, best_match,
                   opcodes, op_idx, output_doc>>
    /\ UNCHANGED gui

\* a delete step that moves the cursor one page past the matched page
AlignDeleteSkipsOne ==
    /\ pc = "apply"
    /\ best_match.type = "delete"
    /\ alignments' = Append(alignments, Op("delete", i, best_match.i, j, j))
    /\ i' = best_match.i + 1
    /\ pc' = "align"
    /\ UNCHANGED <<doc_a, doc_b, j, current_similarity, best_match,
                   opcodes, op_idx, output_doc>>
    /\ UNCHANGED gui

\* elif best_match['type'] == 'delete'
AlignDelete ==
    /\ pc = "apply"
    /\ best_match.type = "delete"
    /\ alignments' = Append(alignments, Op("delete", i, best_match.i, j, j))
    /\ i' = best_match.i
    /\ pc' = "align"
    /\ UNCHANGED <<doc_a, doc_b, j, current_similarity, best_match,
                   opcodes, op_idx, output_doc>>
    /\ UNCHANGED gui

\* an equal step that widens the 'equal' opcode before it instead of
\* appending a new one
AlignEqualMerging ==
    /\ pc = "apply"
    /\ best_match.type \notin {"insert", "delete"}
    /\ Greater(current_similarity, SIMILARITY_THRESHOLD)
    /\ alignments' =
          IF alignments # <<>> /\ alignments[Len(alignments)].tag = "equal"
          THEN [alignments EXCEPT ![Len(alignments)].i2 = i + 1,
                                  ![Len(alignments)].j2 = j + 1]
          ELSE Append(alignments, Op("equal", i, i + 1, j, j + 1))
    /\ i' = i + 1
    /\ j' = j + 1
    /\ pc' = "align"
    /\ UNCHANGED <<doc_a, doc_b, current_similarity, best_match,
                   opcodes, op_idx, output_doc>>
    /\ UNCHANGED gui

\* an equal step taken at the threshold too (>= instead of >)
AlignEqualAtThreshold ==
    /\ pc = "apply"
    /\ best_match.type \notin {"insert", "delete"}
    /\ ~Greater(SIMILARITY_THRESHOLD, current_similarity)
    /\ alignments' = Append(alignments, Op("equal", i, i + 1, j, j + 1))
    /\ i' = i + 1
    /\ j' = j + 1
    /\ pc' = "align"
    /\ UNCHANGED <<doc_a, doc_b, current_similarity, best_match,
                   opcodes, op_idx, output_doc>>
    /\ UNCHANGED gui

\* elif current_similarity > SIMILARITY_THRESHOLD
AlignEqual ==
    /\ pc = "apply"
    /\ best_match.type \notin {"insert", "delete"}
    /\ Greater(current_similarity, SIMILARITY_THRESHOLD)
    /\ alignments' = Append(alignments, Op("equal", i, i + 1, j, j + 1))
    /\ i' = i + 1
    /\ j' = j + 1
    /\ pc' = "align"
    /\ UNCHANGED <<doc_a, doc_b, current_similarity, best_match,
                   opcodes, op_idx, output_doc>>
    /\ UNCHANGED gui

\* else
AlignReplace ==
    /\ pc = "apply"
    /\ best_match.type \notin {"insert", "delete"}
    /\ ~Greater(current_similarity, SIMILARITY_THRESHOLD)
    /\ alignments' = Append(alignments, Op("replace", i, i + 1, j, j + 1))
    /\ i' = i + 1
    /\ j' = j + 1
    /\ pc' = "align"
    /\ UNCHANGED <<doc_a, doc_b, current_similarity, best_match,
                   opcodes, op_idx, output_doc>>
    /\ UNCHANGED gui

\* return alignments, into compare_visuals' opcodes
AlignReturn ==
    /\ pc = "break" \/ (pc = "align" /\ ~LoopCondition)
    /\ opcodes' = alignments
    /\ op_idx' = 0
    /\ pc' = "visuals"
    /\ UNCHANGED <<doc_a, doc_b, i, j, current_similarity, best_match,
                   alignments, output_doc>>
    /\ UNCHANGED gui

-----------------------------------------------------------------------------
(* compare_visuals and the two page builders.  A report page records what  *)
(* the builder drew: which source pages, the label, the shift marker and   *)
(* the highlight rectangles.                                               *)

margin == 20
gap == 10
label_height == 40

\* one draw_rect of _add_comparison_page: red on the left page for a word of
\* A ("Removed"), green on the right page for a word of B ("Added")
Region(side, kind, w_idx, bbox, dx, dy) ==
    [side |-> side, kind |-> kind, w_idx |-> w_idx,
     bbox |-> <<bbox[1] + dx, bbox[2] + dy, bbox[3] + dx, bbox[4] + dy>>]

\* a highlighter that forgets the words of an 'insert' opcode
RegionsOfOpNoInsert(op, words_a, words_b, rect_a_width) ==
    IF op.tag = "equal" THEN <<>>
    ELSE (IF op.tag \in {"replace", "delete"}
          THEN [n \in 1..(op.i2 - op.i1) |->
                   Region("A", "Removed", op.i1 + n - 1,
                          words_a[op.i1 + n].bbox, margin, margin + label_height)]
          ELSE <<>>)
         \o (IF op.tag \in {"replace"}
             THEN [n \in 1..(op.j2 - op.j1) |->
                      Region("B", "Added", op.j1 + n - 1,
                             words_b[op.j1 + n].bbox,
                             margin + rect_a_width + gap, margin + label_height)]
             ELSE <<>>)

\* rectangles of B placed right after page A, without the gap between them
RegionsOfOpNoGap(op, words_a, words_b, rect_a_width) ==
    IF op.tag = "equal" THEN <<>>
    ELSE (IF op.tag \in {"replace", "delete"}
          THEN [n \in 1..(op.i2 - op.i1) |->
                   Region("A", "Removed", op.i1 + n - 1,
                          words_a[op.i1 + n].bbox, margin, margin + label_height)]
          ELSE <<>>)
         \o (IF op.tag \in {"replace", "insert"}
             THEN [n \in 1..(op.j2 - op.j1) |->
                      Region("B", "Added", op.j1 + n - 1,
                             words_b[op.j1 + n].bbox,
                             margin + rect_a_width, margin + label_height)]
             ELSE <<>>)

\* the rectangles drawn for one opcode of the word diff
RegionsOfOp(op, words_a, words_b, rect_a_width) ==
    IF op.tag = "equal" THEN <<>>
    ELSE (IF op.tag \in {"replace", "delete"}
          THEN [n \in 1..(op.i2 - op.i1) |->
                   Region("A", "Removed", op.i1 + n - 1,
                          words_a[op.i1 + n].bbox, margin, margin + label_height)]
          ELSE <<>>)
         \o (IF op.tag \in {"replace", "insert"}
             THEN [n \in 1..(op.j2 - op.j1) |->
                      Region("B", "Added", op.j1 + n - 1,
                             words_b[op.j1 + n].bbox,
                             margin + rect_a_width + gap, margin + label_height)]
             ELSE <<>>)

\* the loop over matcher.get_opcodes()
Highlights(words_a, words_b, rect_a_width) ==
    LET ta  == [n \in 1..Len(words_a) |-> words_a[n].text]
        tb  == [n \in 1..Len(words_b) |-> words_b[n].text]
        ops == get_opcodes(ta, tb)
    IN  Concat([n \in 1..Len(ops) |->
                   RegionsOfOp(ops[n], words_a, words_b, rect_a_width)])

\* a comparison page that never draws the shift marker
add_comparison_page_NoShift(da, db, idx_a, idx_b, comparison_type) ==
    [idx_a    |-> idx_a,
     idx_b    |-> idx_b,
     position |-> "both",
     label    |-> comparison_type,
     width    |-> da[idx_a + 1].width + db[idx_b + 1].width + gap + 2 * margin,
     height   |-> Max(da[idx_a + 1].height, db[idx_b + 1].height)
                  + 2 * margin + label_height,
     panel_a  |-> <<margin, margin + label_height,
                    margin + da[idx_a + 1].width,
                    margin + label_height + da[idx_a + 1].height>>,
     panel_b  |-> <<margin + da[idx_a + 1].width + gap, margin + label_height,
                    margin + da[idx_a + 1].width + gap + db[idx_b + 1].width,
                    margin + label_height + db[idx_b + 1].height>>,
     regions  |-> Highlights(da[idx_a + 1].words, db[idx_b + 1].words,
                             da[idx_a + 1].width),
     shifted  |-> FALSE]

\* a comparison page that marks only a pair moved towards the end of B
add_comparison_page_ShiftForward(da, db, idx_a, idx_b, comparison_type) ==
    [idx_a    |-> idx_a,
     idx_b    |-> idx_b,
     position |-> "both",
     label    |-> comparison_type,
     width    |-> da[idx_a + 1].width + db[idx_b + 1].width + gap + 2 * margin,
     height   |-> Max(da[idx_a + 1].height, db[idx_b + 1].height)
                  + 2 * margin + label_height,
     panel_a  |-> <<margin, margin + label_height,
                    margin + da[idx_a + 1].width,
                    margin + label_height + da[idx_a + 1].height>>,
     panel_b  |-> <<margin + da[idx_a + 1].width + gap, margin + label_height,
                    margin + da[idx_a + 1].width + gap + db[idx_b + 1].width,
                    margin + label_height + db[idx_b + 1].height>>,
     regions  |-> Highlights(da[idx_a + 1].words, db[idx_b + 1].words,
                             da[idx_a + 1].width),
     shifted  |-> idx_a < idx_b]

\* _add_comparison_page(output_doc, doc_a, doc_b, idx_a, idx_b, comparison_type);
\* panel_a and panel_b are the rectangles of the two show_pdf_page calls
add_comparison_page(da, db, idx_a, idx_b, comparison_type) ==
    LET page_a == da[idx_a + 1]
        page_b == db[idx_b + 1]
    IN  [idx_a    |-> idx_a,
         idx_b    |-> idx_b,
         position |-> "both",
         label    |-> comparison_type,
         width    |-> page_a.width + page_b.width + gap + 2 * margin,
         height   |-> Max(page_a.height, page_b.height) + 2 * margin + label_height,
         panel_a  |-> <<margin, margin + label_height,
                        margin + page_a.width, margin + label_height + page_a.height>>,
         panel_b  |-> <<margin + page_a.width + gap, margin + label_height,
                        margin + page_a.width + gap + page_b.width,
                        margin + label_height + page_b.height>>,
         regions  |-> Highlights(page_a.words, page_b.words, page_a.width),
         shifted  |-> idx_a # idx_b]

\* _add_single_page(output_doc, source_doc, page_idx, position, label_type);
\* side names the source document, "A" for doc_a and "B" for doc_b
add_single_page(da, db, side, page_idx, position, label_type) ==
    LET page == IF side = "A" THEN da[page_idx + 1] ELSE db[page_idx + 1]
    IN  [idx_a    |-> IF side = "A" THEN page_idx ELSE NoPage,
         idx_b    |-> IF side = "B" THEN page_idx ELSE NoPage,
         position |-> position,
         label    |-> label_type,
         width    |-> page.width * 2 + gap + 2 * margin,
         height   |-> page.height + 2 * margin + label_height,
         regions  |-> <<>>,
         shifted  |-> FALSE]

\* the k-th round (0-based) of the loop of an 'equal' or 'replace' opcode
PairPage(da, db, op, k) ==
    LET idx_a == IF op.i1 + k < op.i2 THEN op.i1 + k ELSE NoPage
        idx_b == IF op.j1 + k < op.j2 THEN op.j1 + k ELSE NoPage
    IN  IF idx_a # NoPage /\ idx_b # NoPage
        THEN add_comparison_page(da, db, idx_a, idx_b, op.tag)
        ELSE IF idx_a = NoPage
             THEN add_single_page(da, db, "B", idx_b, "right", "Added")
             ELSE add_single_page(da, db, "A", idx_a, "left", "Missing")

\* count = min(...) instead of max(...): the unpaired pages are dropped
PagesForOpMin(da, db, op) ==
    IF op.tag \in {"equal", "replace"}
    THEN [n \in 1..Min(op.i2 - op.i1, op.j2 - op.j1) |-> PairPage(da, db, op, n - 1)]
    ELSE IF op.tag = "delete"
    THEN [n \in 1..(op.i2 - op.i1) |->
             add_single_page(da, db, "A", op.i1 + n - 1, "left", "Missing")]
    ELSE IF op.tag = "insert"
    THEN [n \in 1..(op.j2 - op.j1) |->
             add_single_page(da, db, "B", op.j1 + n - 1, "right", "Added")]
    ELSE <<>>

\* the single-page loops stop one page early
PagesForOpShortLoops(da, db, op) ==
    IF op.tag \in {"equal", "replace"}
    THEN [n \in 1..Max(op.i2 - op.i1, op.j2 - op.j1) |-> PairPage(da, db, op, n - 1)]
    ELSE IF op.tag = "delete"
    THEN [n \in 1..(op.i2 - op.i1 - 1) |->
             add_single_page(da, db, "A", op.i1 + n - 1, "left", "Missing")]
    ELSE IF op.tag = "insert"
    THEN [n \in 1..(op.j2 - op.j1 - 1) |->
             add_single_page(da, db, "B", op.j1 + n - 1, "right", "Added")]
    ELSE <<>>

\* a report that keeps a matched pair only if it has changes or is shifted
\* (the behaviour of the first comparator, src/comparator.py)
ChangedOrShifted(page) == page.position # "both" \/ page.regions # <<>> \/ page.shifted

PagesForOpChangedOnly(da, db, op) ==
    IF op.tag \in {"equal", "replace"}
    THEN SelectSeq([n \in 1..Max(op.i2 - op.i1, op.j2 - op.j1) |->
                       PairPage(da, db, op, n - 1)], ChangedOrShifted)
    ELSE IF op.tag = "delete"
    THEN [n \in 1..(op.i2 - op.i1) |->
             add_single_page(da, db, "A", op.i1 + n - 1, "left", "Missing")]
    ELSE IF op.tag = "insert"
    THEN [n \in 1..(op.j2 - op.j1) |->
             add_single_page(da, db, "B", op.j1 + n - 1, "right", "Added")]
    ELSE <<>>

\* the pages one opcode adds to the report, in the order it adds them
PagesForOp(da, db, op) ==
    IF op.tag \in {"equal", "replace"}
    THEN [n \in 1..Max(op.i2 - op.i1, op.j2 - op.j1) |-> PairPage(da, db, op, n - 1)]
    ELSE IF op.tag = "delete"
    THEN [n \in 1..(op.i2 - op.i1) |->
             add_single_page(da, db, "A", op.i1 + n - 1, "left", "Missing")]
    ELSE IF op.tag = "insert"
    THEN [n \in 1..(op.j2 - op.j1) |->
             add_single_page(da, db, "B", op.j1 + n - 1, "right", "Added")]
    ELSE <<>>

\* a round that puts its pages in front of the report
VisualsOpPrepend ==
    /\ pc = "visuals"
    /\ op_idx < Len(opcodes)
    /\ output_doc' = PagesForOp(doc_a, doc_b, opcodes[op_idx + 1]) \o output_doc
    /\ op_idx' = op_idx + 1
    /\ UNCHANGED <<doc_a, doc_b, pc, i, j, alignments, current_similarity,
                   best_match, opcodes>>
    /\ UNCHANGED gui

\* one round of: for tag, i1, i2, j1, j2 in opcodes
VisualsOp ==
    /\ pc = "visuals"
    /\ op_idx < Len(opcodes)
    /\ output_doc' = output_doc \o PagesForOp(doc_a, doc_b, opcodes[op_idx + 1])
    /\ op_idx' = op_idx + 1
    /\ UNCHANGED <<doc_a, doc_b, pc, i, j, alignments, current_similarity,
                   best_match, opcodes>>
    /\ UNCHANGED gui

\* output_doc.tobytes() and return; for a report without pages the library
\* decides whether tobytes() returns or raises
VisualsReturn ==
    /\ pc = "visuals"
    /\ op_idx = Len(opcodes)
    /\ pc' \in (IF output_doc = <<>> THEN {"done", "raised"} ELSE {"done"})
    /\ UNCHANGED <<doc_a, doc_b, i, j, alignments, current_similarity, best_match,
                   opcodes, op_idx, output_doc>>
    /\ UNCHANGED gui

-----------------------------------------------------------------------------
(* The raster report, PDFComparator.compare_visuals of                     *)
(* src/python/comparator.py: every page is rendered to an image, the two   *)
(* images of a pair are pasted side by side, and the word boxes are scaled *)
(* from the points of the page to the pixels of its image.  A coordinate   *)
(* of a rectangle is a fraction <<num, den>>, the exact value of the       *)
(* float the source computes.  convert_to_images gives an image for every  *)
(* page of a document or, when the conversion fails, no image at all.      *)

\* convert_from_path(file_path, dpi=75, ...)
dpi == 75

\* the sizes in pixels an image can have for a length of pts points: the
\* renderer rounds pts * dpi / 72 to a whole pixel, down or up
Rendered(pts) == {(pts * dpi) \div 72, (pts * dpi + 71) \div 72}

\* a PIL image, by its size
Image(width, height) == [width |-> width, height |-> height]

\* a page with what the conversion of its document made of it: img is <<>>
\* when the conversion failed, otherwise it holds the image of the page
RasterPage(page, img) ==
    [text |-> page.text, words |-> page.words,
     width |-> page.width, height |-> page.height, img |-> img]

\* convert_to_images: the images of all pages, or [] when pdftoppm is not
\* found or convert_from_path raises
convert_to_images(doc) ==
    IF \E n \in 1..Len(doc) : doc[n].img = <<>>
    THEN <<>>
    ELSE [n \in 1..Len(doc) |-> doc[n].img[1]]

\* images[idx] if idx is not None and idx < len(images) else None; None is
\* written <<>>, an image img is written <<img>>
ImageAt(images, idx) ==
    IF idx # NoPage /\ idx < Len(images) THEN <<images[idx + 1]>> ELSE <<>>

\* x * scale + offset with scale = img / float(page)
Scaled(x, img, page, offset) == <<x * img + offset * page, page>>

\* one draw.rectangle of compare_visuals: the box (x0, top, x1, bottom) of a
\* word scaled to the image img of its page, moved right by dx
RasterRegion(side, kind, w_idx, bbox, page, img, dx) ==
    [side |-> side, kind |-> kind, w_idx |-> w_idx,
     bbox |-> <<Scaled(bbox[1], img.width, page.width, dx),
                Scaled(bbox[2], img.height, page.height, 0),
                Scaled(bbox[3], img.width, page.width, dx),
                Scaled(bbox[4], img.height, page.height, 0)>>]

\* the rectangles drawn for one opcode of the word diff: red ones on the
\* image of A, green ones on the image of B, which starts at x = width_a
RasterRegionsOfOp(op, page_a, page_b, img_a, img_b) ==
    IF op.tag = "equal" THEN <<>>
    ELSE (IF op.tag \in {"replace", "delete"}
          THEN [n \in 1..(op.i2 - op.i1) |->
                   RasterRegion("A", "Removed", op.i1 + n - 1,
                                page_a.words[op.i1 + n].bbox, page_a, img_a, 0)]
          ELSE <<>>)
         \o (IF op.tag \in {"replace", "insert"}
             THEN [n \in 1..(op.j2 - op.j1) |->
                      RasterRegion("B", "Added", op.j1 + n - 1,
                                   page_b.words[op.j1 + n].bbox, page_b, img_b,
                                   img_a.width)]
             ELSE <<>>)

\* the loop over matcher.get_opcodes()
RasterHighlights(page_a, page_b, img_a, img_b) ==
    LET ta  == [n \in 1..Len(page_a.words) |-> page_a.words[n].text]
        tb  == [n \in 1..Len(page_b.words) |-> page_b.words[n].text]
        ops == get_opcodes(ta, tb)
    IN  Concat([n \in 1..Len(ops) |->
                   RasterRegionsOfOp(ops[n], page_a, page_b, img_a, img_b)])

\* the branch "if img_a and img_b": the image added for a pair of pages;
\* panel_a and panel_b are the places the two images are pasted at
CombinedPair(da, db, idx_a, idx_b, img_a, img_b) ==
    LET regions == RasterHighlights(da[idx_a + 1], db[idx_b + 1], img_a, img_b)
    IN  [idx_a    |-> idx_a,
         idx_b    |-> idx_b,
         position |-> "both",
         label    |-> IF idx_a # idx_b THEN "(Shifted)"
                      ELSE IF regions # <<>> THEN "" ELSE "(No Differences)",
         width    |-> img_a.width + img_b.width,
         height   |-> Max(img_a.height, img_b.height),
         panel_a  |-> <<0, 0, img_a.width, img_a.height>>,
         panel_b  |-> <<img_a.width, 0, img_a.width + img_b.width, img_b.height>>,
         regions  |-> regions,
         shifted  |-> idx_a # idx_b]

\* the image added for a page shown alone: the image img of page page_idx
\* of its side, a blank page of the same size on the other side
CombinedSingle(side, page_idx, img) ==
    [idx_a    |-> IF side = "A" THEN page_idx ELSE NoPage,
     idx_b    |-> IF side = "B" THEN page_idx ELSE NoPage,
     position |-> IF side = "A" THEN "left" ELSE "right",
     label    |-> IF side = "A" THEN "(Missing)" ELSE "(Added)",
     width    |-> img.width * 2,
     height   |-> img.height,
     regions  |-> <<>>,
     shifted  |-> FALSE]

\* the k-th round (0-based) of the loop of an 'equal' or 'replace' opcode:
\* the branch is chosen by the images; with neither image nothing is added
RasterPairPage(da, db, op, k) ==
    LET idx_a == IF op.i1 + k < op.i2 THEN op.i1 + k ELSE NoPage
        idx_b == IF op.j1 + k < op.j2 THEN op.j1 + k ELSE NoPage
        img_a == ImageAt(convert_to_images(da), idx_a)
        img_b == ImageAt(convert_to_images(db), idx_b)
    IN  IF img_a # <<>> /\ img_b # <<>>
        THEN <<CombinedPair(da, db, idx_a, idx_b, img_a[1], img_b[1])>>
        ELSE IF img_a = <<>> /\ img_b # <<>>
        THEN <<CombinedSingle("B", idx_b, img_b[1])>>
        ELSE IF img_b = <<>> /\ img_a # <<>>
        THEN <<CombinedSingle("A", idx_a, img_a[1])>>
        ELSE <<>>

\* images[k] in the loop "for k in range(lo, hi)" raises IndexError
LoopRaises(images, lo, hi) == lo < hi /\ hi > Len(images)

\* the rounds of "for k in range(lo, hi)" that end before images[k] raises
RoundsBeforeRaise(images, lo, hi) == Max(0, Min(hi, Len(images)) - lo)

\* the opcode raises: a 'delete' or 'insert' loop reads an image that is
\* not there
RasterRaises(da, db, op) ==
    \/ op.tag = "delete" /\ LoopRaises(convert_to_images(da), op.i1, op.i2)
    \/ op.tag = "insert" /\ LoopRaises(convert_to_images(db), op.j1, op.j2)

\* the images one opcode appends to diff_results, in order, up to the round
\* that raises if one does
RasterPagesForOp(da, db, op) ==
    IF op.tag \in {"equal", "replace"}
    THEN Concat([n \in 1..Max(op.i2 - op.i1, op.j2 - op.j1) |->
                    RasterPairPage(da, db, op, n - 1)])
    ELSE IF op.tag = "delete"
    THEN [n \in 1..RoundsBeforeRaise(convert_to_images(da), op.i1, op.i2) |->
             CombinedSingle("A", op.i1 + n - 1, convert_to_images(da)[op.i1 + n])]
    ELSE IF op.tag = "insert"
    THEN [n \in 1..RoundsBeforeRaise(convert_to_images(db), op.j1, op.j2) |->
             CombinedSingle("B", op.j1 + n - 1, convert_to_images(db)[op.j1 + n])]
    ELSE <<>>

\* one round of: for tag, i1, i2, j1, j2 in opcodes; an IndexError ends the
\* call
RasterOp ==
    /\ pc = "raster"
    /\ op_idx < Len(opcodes)
    /\ output_doc' = output_doc \o RasterPagesForOp(doc_a, doc_b, opcodes[op_idx + 1])
    /\ IF RasterRaises(doc_a, doc_b, opcodes[op_idx + 1])
       THEN pc' = "raster_raised" /\ op_idx' = op_idx
       ELSE pc' = pc /\ op_idx' = op_idx + 1
    /\ UNCHANGED <<doc_a, doc_b, i, j, alignments, current_similarity,
                   best_match, opcodes>>
    /\ UNCHANGED gui

\* return diff_results
RasterReturn ==
    /\ pc = "raster"
    /\ op_idx = Len(opcodes)
    /\ pc' = "raster_done"
    /\ UNCHANGED <<doc_a, doc_b, i, j, alignments, current_similarity, best_match,
                   opcodes, op_idx, output_doc>>
    /\ UNCHANGED gui

-----------------------------------------------------------------------------
(* The front end, gui.App.  Handlers run one at a time on the Tk main      *)
(* loop; run_comparison runs on a worker thread and shares result_queue    *)
(* with them.  A widget is recorded by its state option.  A handler that   *)
(* calls messagebox.showerror waits inside it, in the dialog's own event   *)
(* loop, until the user closes the dialog: the dialog is modal, so no      *)
(* button of the window is pressed meanwhile, but timers still fire.       *)

\* comparisons started in one session
MaxRuns == 3

\* what filedialog.askopenfilename returns: "" when the dialog is cancelled
FilenamesA == {"", "a.pdf"}

FilenamesB == {"", "b.pdf"}

\* the first element of a queued result: result[0]
ResultTypes == {"success", "empty", "error"}

\* App.__init__: no file chosen, Compare enabled, the three report buttons
\* created with state="disabled", an empty queue.Queue()
AppInit ==
    [file_a_path |-> "", file_b_path |-> "",
     btn_compare |-> "normal", btn_download |-> "disabled",
     btn_open |-> "disabled", btn_save_as |-> "disabled",
     result_queue |-> <<>>]

\* app.mainloop() before any event: no handler running, no after() callback.
\* pc is "idle", or the handler the loop is inside: "check_queue" (called by
\* start_comparison), "start_comparison" or "update_ui_error" (waiting in
\* messagebox.showerror); callback_exceptions counts the exceptions that left
\* a handler and were reported by the loop (report_callback_exception)
MainloopInit == [pc |-> "idle", after |-> 0, handled |-> <<>>, callback_exceptions |-> 0]

\* the front end before any event
GuiAtRest ==
    /\ app = AppInit
    /\ threads = <<>>
    /\ mainloop = MainloopInit

\* select_file_a: if filename: self.file_a_path = filename
select_file_a ==
    /\ mainloop.pc = "idle"
    /\ \E filename \in FilenamesA :
           app' = IF filename # "" THEN [app EXCEPT !.file_a_path = filename] ELSE app
    /\ UNCHANGED <<threads, mainloop>>
    /\ UNCHANGED comparator

\* select_file_b: if filename: self.file_b_path = filename
select_file_b ==
    /\ mainloop.pc = "idle"
    /\ \E filename \in FilenamesB :
           app' = IF filename # "" THEN [app EXCEPT !.file_b_path = filename] ELSE app
    /\ UNCHANGED <<threads, mainloop>>
    /\ UNCHANGED comparator

\* threading.Thread(target=self.run_comparison); thread.start()
Thread == [pc |-> "try", puts |-> 0]

\* a start_comparison that leaves the Compare button enabled
start_comparisonCompareEnabled ==
    /\ mainloop.pc = "idle"
    /\ app.btn_compare = "normal"
    /\ Len(threads) < MaxRuns
    /\ IF app.file_a_path = "" \/ app.file_b_path = ""
       THEN /\ mainloop' = [mainloop EXCEPT !.pc = "start_comparison"]
            /\ UNCHANGED <<app, threads>>
       ELSE /\ app' = [app EXCEPT !.btn_download = "disabled",
                                  !.btn_open = "disabled",
                                  !.btn_save_as = "disabled"]
            /\ threads' = Append(threads, Thread)
            /\ mainloop' = [mainloop EXCEPT !.pc = "check_queue"]
    /\ UNCHANGED comparator

\* a start_comparison that leaves the report buttons as they are
start_comparisonKeepsReport ==
    /\ mainloop.pc = "idle"
    /\ app.btn_compare = "normal"
    /\ Len(threads) < MaxRuns
    /\ IF app.file_a_path = "" \/ app.file_b_path = ""
       THEN /\ mainloop' = [mainloop EXCEPT !.pc = "start_comparison"]
            /\ UNCHANGED <<app, threads>>
       ELSE /\ app' = [app EXCEPT !.btn_compare = "disabled"]
            /\ threads' = Append(threads, Thread)
            /\ mainloop' = [mainloop EXCEPT !.pc = "check_queue"]
    /\ UNCHANGED comparator

\* start_comparison, the command of btn_compare (a disabled button runs no
\* command): with a file missing up to messagebox.showerror, otherwise up
\* to thread.start(); the call of check_queue that ends it is the next step
\* of the main loop
start_comparison ==
    /\ mainloop.pc = "idle"
    /\ app.btn_compare = "normal"
    /\ Len(threads) < MaxRuns
    /\ IF app.file_a_path = "" \/ app.file_b_path = ""
       THEN /\ mainloop' = [mainloop EXCEPT !.pc = "start_comparison"]
            /\ UNCHANGED <<app, threads>>
       ELSE /\ app' = [app EXCEPT !.btn_compare = "disabled",
                                  !.btn_download = "disabled",
                                  !.btn_open = "disabled",
                                  !.btn_save_as = "disabled"]
            /\ threads' = Append(threads, Thread)
            /\ mainloop' = [mainloop EXCEPT !.pc = "check_queue"]
    /\ UNCHANGED comparator

\* self.result_queue.put((result_type, ...)) by thread t, which then ends
Put(t, result_type) ==
    /\ app' = [app EXCEPT !.result_queue = Append(@, result_type)]
    /\ threads' = [threads EXCEPT ![t] = [pc |-> "done", puts |-> @.puts + 1]]

\* thread t moves on inside run_comparison without a put
Goto(t, label) ==
    /\ threads' = [threads EXCEPT ![t].pc = label]
    /\ app' = app

\* what comparator.compare_visuals() does for run_comparison: it returns
\* bytes, returns nothing, or raises
CompareVisualsOutcomes == {"bytes", "falsy", "raises"}

\* run_comparison, the try block up to "if pdf_bytes:" and its else branch
run_comparison_try(t) ==
    /\ threads[t].pc = "try"
    /\ \E outcome \in CompareVisualsOutcomes :
           CASE outcome = "bytes" -> Goto(t, "report")
             [] outcome = "falsy" -> Put(t, "empty")
             [] outcome = "raises" -> Goto(t, "except")
    /\ UNCHANGED mainloop
    /\ UNCHANGED comparator

\* run_comparison, the branch "if pdf_bytes:": the temporary file and the
\* preview images (either may raise), then put(('success', ...))
run_comparison_report(t) ==
    /\ threads[t].pc = "report"
    /\ \E raises \in BOOLEAN :
           IF raises THEN Goto(t, "except") ELSE Put(t, "success")
    /\ UNCHANGED mainloop
    /\ UNCHANGED comparator

\* an except block that prints the traceback and puts nothing
run_comparison_exceptSilent(t) ==
    /\ threads[t].pc = "except"
    /\ threads' = [threads EXCEPT ![t].pc = "done"]
    /\ UNCHANGED <<app, mainloop>>
    /\ UNCHANGED comparator

\* run_comparison, except Exception as e: put(('error', str(e)))
run_comparison_except(t) ==
    /\ threads[t].pc = "except"
    /\ Put(t, "error")
    /\ UNCHANGED mainloop
    /\ UNCHANGED comparator

\* one step of a worker thread
run_comparison ==
    \E t \in 1..Len(threads) :
        \/ run_comparison_try(t)
        \/ run_comparison_report(t)
        \/ run_comparison_except(t)

\* what displaying the previews does: every image is shown, or a call of the
\* loop (img.resize, CTkImage, CTkLabel, pack) raises
PreviewOutcomes == {"shown", "raises"}

\* update_ui_success: the three report buttons set to "normal", then the
\* preview loop, and only after it Compare set to "normal"; an exception in
\* the loop ends the call before that
update_ui_success(a, preview) ==
    IF preview = "raises"
    THEN [a EXCEPT !.btn_download = "normal", !.btn_open = "normal",
                   !.btn_save_as = "normal"]
    ELSE [a EXCEPT !.btn_download = "normal", !.btn_open = "normal",
                   !.btn_save_as = "normal", !.btn_compare = "normal"]

\* update_ui_empty: Compare set to "normal"
update_ui_empty(a) == [a EXCEPT !.btn_compare = "normal"]

\* check_queue, the if/elif chain on result_type, up to the end of
\* update_ui_success and update_ui_empty and up to the messagebox.showerror
\* of update_ui_error, which leaves the widgets as they are
Dispatch(result_type, preview, a) ==
    CASE result_type = "success" -> update_ui_success(a, preview)
      [] result_type = "empty" -> update_ui_empty(a)
      [] OTHER -> a

\* where the main loop is once this call of check_queue is over: back where
\* it was, "idle" after the call made by start_comparison
Caller == IF mainloop.pc = "check_queue" THEN "idle" ELSE mainloop.pc

\* the after() callbacks still pending once this call of check_queue began:
\* a call made by the timer uses one up, the call from start_comparison none
AfterLeft == IF mainloop.pc = "check_queue" THEN mainloop.after ELSE mainloop.after - 1

\* check_queue, called by start_comparison or by the timer of after(100, ...):
\* get_nowait(), then the update_ui_* of the result (for an error up to its
\* messagebox.showerror); on queue.Empty self.after(100, self.check_queue).
\* Only queue.Empty is caught: an exception of update_ui_success leaves
\* check_queue, and the main loop reports it and goes on.
check_queue ==
    /\ mainloop.pc # "check_queue" => mainloop.after > 0
    /\ IF app.result_queue # <<>>
       THEN \E preview \in PreviewOutcomes :
               /\ preview = "raises" => Head(app.result_queue) = "success"
               /\ app' = Dispatch(Head(app.result_queue), preview,
                                  [app EXCEPT !.result_queue = Tail(@)])
               /\ mainloop' = [pc |-> IF Head(app.result_queue) = "error"
                                      THEN "update_ui_error" ELSE Caller,
                               after |-> AfterLeft,
                               handled |-> Append(mainloop.handled,
                                                  Head(app.result_queue)),
                               callback_exceptions |->
                                   IF preview = "raises"
                                   THEN mainloop.callback_exceptions + 1
                                   ELSE mainloop.callback_exceptions]
       ELSE /\ app' = app
            /\ mainloop' = [mainloop EXCEPT !.pc = Caller, !.after = AfterLeft + 1]
    /\ UNCHANGED threads
    /\ UNCHANGED comparator

\* start_comparison, after messagebox.showerror("Please select both PDF
\* files."): return
start_comparison_return ==
    /\ mainloop.pc = "start_comparison"
    /\ mainloop' = [mainloop EXCEPT !.pc = "idle"]
    /\ UNCHANGED <<app, threads>>
    /\ UNCHANGED comparator

\* update_ui_error, after messagebox.showerror: Compare set to "normal"
update_ui_error_return ==
    /\ mainloop.pc = "update_ui_error"
    /\ app' = [app EXCEPT !.btn_compare = "normal"]
    /\ mainloop' = [mainloop EXCEPT !.pc = "idle"]
    /\ UNCHANGED threads
    /\ UNCHANGED comparator

-----------------------------------------------------------------------------
(* Spec: compare_visuals on two documents, align_pages included.           *)

Init ==
    /\ doc_a \in Docs
    /\ doc_b \in Docs
    /\ pc = "align"
    /\ i = 0
    /\ j = 0
    /\ alignments = <<>>
    /\ current_similarity = Unset.similarity
    /\ best_match = Unset
    /\ opcodes = <<>>
    /\ op_idx = 0
    /\ output_doc = <<>>
    /\ GuiAtRest

Next ==
    \/ AlignInsertTail
    \/ AlignDeleteTail
    \/ AlignProbe
    \/ AlignInsert
    \/ AlignDelete
    \/ AlignEqual
    \/ AlignReplace
    \/ AlignReturn
    \/ VisualsOp
    \/ VisualsReturn

Spec == Init /\ [][Next]_vars

-----------------------------------------------------------------------------
(* SpecPlan: compare_visuals on a plan it is handed, as when align_pages   *)
(* is replaced by a stub (test_unequal_replace_block): any plan whose      *)
(* ranges cover both documents in order, with 'equal' and 'replace'        *)
(* opcodes of any two non-empty lengths.                                   *)

\* the opcodes that can follow cursor (x, y) in documents of la and lb pages
OpsFrom(x, y, la, lb) ==
    {Op("insert", x, x, y, y2) : y2 \in (y + 1)..lb}
    \cup {Op("delete", x, x2, y, y) : x2 \in (x + 1)..la}
    \cup {Op(t, x, c[1], y, c[2]) :
             t \in {"equal", "replace"}, c \in ((x + 1)..la) \X ((y + 1)..lb)}

\* the plans that cover [x, la) and [y, lb)
RECURSIVE PlansFrom(_, _, _, _)
PlansFrom(x, y, la, lb) ==
    IF x = la /\ y = lb THEN {<<>>}
    ELSE UNION {{<<op>> \o rest : rest \in PlansFrom(op.i2, op.j2, la, lb)} :
                   op \in OpsFrom(x, y, la, lb)}

PlanPages == {PageAB, PageABC}

InitPlan ==
    /\ doc_a \in SeqsUpTo(PlanPages, MaxPlanPages)
    /\ doc_b \in SeqsUpTo(PlanPages, MaxPlanPages)
    /\ opcodes \in PlansFrom(0, 0, Len(doc_a), Len(doc_b))
    /\ pc = "visuals"
    /\ i = 0
    /\ j = 0
    /\ alignments = <<>>
    /\ current_similarity = Unset.similarity
    /\ best_match = Unset
    /\ op_idx = 0
    /\ output_doc = <<>>
    /\ GuiAtRest

NextPlan ==
    \/ VisualsOp
    \/ VisualsReturn

SpecPlan == InitPlan /\ [][NextPlan]_vars

-----------------------------------------------------------------------------
(* SpecWords: _add_comparison_page on one pair of pages, for every two     *)
(* word lists over a small vocabulary.  align_pages on two one-page        *)
(* documents returns one 'equal' or one 'replace' opcode for the pair.     *)

Vocabulary == {"Hello", "World"}

\* the page text is read by align_pages only, which has returned
WordPages == {Page(<<"t">>, WordsOf(ts), 100, 100) : ts \in SeqsUpTo(Vocabulary, MaxWords)}

InitWords ==
    /\ doc_a \in {<<p>> : p \in WordPages}
    /\ doc_b \in {<<p>> : p \in WordPages}
    /\ opcodes \in {<<Op(t, 0, 1, 0, 1)>> : t \in {"equal", "replace"}}
    /\ pc = "visuals"
    /\ i = 0
    /\ j = 0
    /\ alignments = <<>>
    /\ current_similarity = Unset.similarity
    /\ best_match = Unset
    /\ op_idx = 0
    /\ output_doc = <<>>
    /\ GuiAtRest

SpecWords == InitWords /\ [][NextPlan]_vars

-----------------------------------------------------------------------------
(* SpecTexts: align_pages on two one-page documents, for every two page    *)
(* texts over a small alphabet: the ratio of one pair of texts and the     *)
(* opcode it decides.                                                      *)

Tokens == {"a", "b", "c"}

\* the words are read by _add_comparison_page only
TextPages == {Page(t, <<>>, 100, 100) : t \in SeqsUpTo(Tokens, MaxTokens)}

\* the text s written n times over
Repeat(s, n) == [k \in 1..(n * Len(s)) |-> s[((k - 1) % Len(s)) + 1]]

\* page texts long enough for difflib's popular-element heuristic: 200
\* characters that are all popular, in two phases, and 201 characters of
\* which the one in the middle is not popular
TextAb100 == Repeat(<<"a", "b">>, 100)
TextBa100 == Repeat(<<"b", "a">>, 100)
TextAbCAb == Repeat(<<"a", "b">>, 50) \o <<"c">> \o Repeat(<<"a", "b">>, 50)

LongTextPages == {Page(t, <<>>, 100, 100) : t \in {TextAb100, TextBa100, TextAbCAb}}

InitTexts ==
    /\ doc_a \in {<<p>> : p \in TextPages \cup LongTextPages}
    /\ doc_b \in {<<p>> : p \in TextPages \cup LongTextPages}
    /\ pc = "align"
    /\ i = 0
    /\ j = 0
    /\ alignments = <<>>
    /\ current_similarity = Unset.similarity
    /\ best_match = Unset
    /\ opcodes = <<>>
    /\ op_idx = 0
    /\ output_doc = <<>>
    /\ GuiAtRest

NextTexts ==
    \/ AlignProbe
    \/ AlignEqual
    \/ AlignReplace
    \/ AlignReturn

SpecTexts == InitTexts /\ [][NextTexts]_vars

-----------------------------------------------------------------------------
(* SpecAlign: align_pages alone, on a short and a long document in either  *)
(* order, so that a run of several extra pages fits on one side.           *)

\* ratios: AB/ABC 0.8, ABC/C 0.5, AB/C 0
AlignPages == {PageAB, PageABC, PageC}

\* two texts of five tokens with three in common: ratio 2*3/10, exactly 0.6
PageAbcde == Page(<<"a", "b", "c", "d", "e">>, <<>>, 100, 100)
PageAbcxy == Page(<<"a", "b", "c", "x", "y">>, <<>>, 100, 100)

ThresholdDocs == {<<PageAbcde>>, <<PageAbcxy>>}

ShortDocs == SeqsUpTo(AlignPages, MaxPages - 1) \cup ThresholdDocs
LongDocs == SeqsUpTo(AlignPages, MaxPages + 1) \cup ThresholdDocs

\* a page of 90 characters and a page of 200 that holds it, all popular
PageBa45 == Page(Repeat(<<"b", "a">>, 45), <<>>, 100, 100)
PageAb100 == Page(TextAb100, <<>>, 100, 100)

\* one-page documents of long text, in both orders
LongPageInputs == {<< <<PageBa45>>, <<PageAb100>> >>, << <<PageAb100>>, <<PageBa45>> >>}

AlignInputs == (ShortDocs \X LongDocs) \cup (LongDocs \X ShortDocs) \cup LongPageInputs

InitAlign ==
    /\ \E input \in AlignInputs : doc_a = input[1] /\ doc_b = input[2]
    /\ pc = "align"
    /\ i = 0
    /\ j = 0
    /\ alignments = <<>>
    /\ current_similarity = Unset.similarity
    /\ best_match = Unset
    /\ opcodes = <<>>
    /\ op_idx = 0
    /\ output_doc = <<>>
    /\ GuiAtRest

NextAlign ==
    \/ AlignInsertTail
    \/ AlignDeleteTail
    \/ AlignProbe
    \/ AlignInsert
    \/ AlignDelete
    \/ AlignEqual
    \/ AlignReplace
    \/ AlignReturn

SpecAlign == InitAlign /\ [][NextAlign]_vars

\* the guard of AlignProbe: the loop is at its head with a page on each side
AlignProbeEnabled == InLoop /\ i < len_a /\ j < len_b

\* align_pages is one sequential call: a step that can be taken is taken.
\* The last conjunct is WF_vars(AlignProbe) written out, with the guard of
\* AlignProbe in the place of ENABLED <<AlignProbe>>_vars.
SpecAlignFair ==
    /\ InitAlign
    /\ [][NextAlign]_vars
    /\ WF_vars(AlignInsertTail \/ AlignDeleteTail \/ AlignInsert
                  \/ AlignDelete \/ AlignEqual \/ AlignReplace \/ AlignReturn)
    /\ ([]<>~AlignProbeEnabled \/ []<><<AlignProbe>>_vars)

-----------------------------------------------------------------------------
(* SpecReport: compare_visuals, align_pages included, on the documents of  *)
(* SpecAlign.                                                              *)

SpecReport == InitAlign /\ [][Next]_vars

-----------------------------------------------------------------------------
(* SpecLayout: one pair of pages of different sizes put on a report page,  *)
(* by _add_comparison_page of the vector report and by compare_visuals of  *)
(* the raster report, for the placement of the rectangles.                 *)

LayoutPages ==
    {Page(<<"t">>, WordsOf(ts), wd, ht) :
        ts \in SeqsUpTo(Vocabulary, MaxWords - 1), wd \in {80, 100}, ht \in {100, 120}}

\* the same pages with the images a rendering at dpi can give, and without
\* an image
RasterPages ==
    UNION {{RasterPage(p, <<Image(iw, ih)>>) :
               iw \in Rendered(p.width), ih \in Rendered(p.height)}
           \cup {RasterPage(p, <<>>)} : p \in LayoutPages}

\* a document of one or two pages, converted to images or not
RasterDoc(len, converted) ==
    [n \in 1..len |->
        RasterPage(Page(<<"t">>, WordsOf(<<"Hello">>), 100, 100),
                   IF converted THEN <<Image(103 + n, 103 + n)>> ELSE <<>>)]

\* two documents of equal page texts, one of them a page longer, with the
\* plan align_pages gives for them
RasterPlanInputs ==
    UNION {{<<RasterDoc(2, ca), RasterDoc(1, cb),
              <<Op("equal", 0, 1, 0, 1), Op("delete", 1, 2, 1, 1)>> >>,
            <<RasterDoc(1, ca), RasterDoc(2, cb),
              <<Op("equal", 0, 1, 0, 1), Op("insert", 1, 1, 1, 2)>> >>} :
              ca \in BOOLEAN, cb \in BOOLEAN}

InitLayout ==
    /\ \/ /\ pc = "visuals"
          /\ doc_a \in {<<p>> : p \in LayoutPages}
          /\ doc_b \in {<<p>> : p \in LayoutPages}
          /\ opcodes \in {<<Op(t, 0, 1, 0, 1)>> : t \in {"equal", "replace"}}
       \/ /\ pc = "raster"
          /\ doc_a \in {<<p>> : p \in RasterPages}
          /\ doc_b \in {<<p>> : p \in RasterPages}
          /\ opcodes \in {<<Op(t, 0, 1, 0, 1)>> : t \in {"equal", "replace"}}
       \/ /\ pc = "raster"
          /\ \E input \in RasterPlanInputs :
                /\ doc_a = input[1]
                /\ doc_b = input[2]
                /\ opcodes = input[3]
    /\ i = 0
    /\ j = 0
    /\ alignments = <<>>
    /\ current_similarity = Unset.similarity
    /\ best_match = Unset
    /\ op_idx = 0
    /\ output_doc = <<>>
    /\ GuiAtRest

NextLayout ==
    \/ VisualsOp
    \/ VisualsReturn
    \/ RasterOp
    \/ RasterReturn

SpecLayout == InitLayout /\ [][NextLayout]_vars

-----------------------------------------------------------------------------
(* SpecGui: a session of the front end; no PDFComparator call is modelled, *)
(* its outcome is drawn in run_comparison_try.                             *)

InitGui ==
    /\ GuiAtRest
    /\ doc_a = <<>>
    /\ doc_b = <<>>
    /\ pc = "idle"
    /\ i = 0
    /\ j = 0
    /\ alignments = <<>>
    /\ current_similarity = Unset.similarity
    /\ best_match = Unset
    /\ opcodes = <<>>
    /\ op_idx = 0
    /\ output_doc = <<>>

NextGui ==
    \/ select_file_a
    \/ select_file_b
    \/ start_comparison
    \/ run_comparison
    \/ check_queue
    \/ start_comparison_return
    \/ update_ui_error_return

SpecGui == InitGui /\ [][NextGui]_vars

\* the main loop runs a handler that is due and the scheduler runs a thread
\* that can run; nothing obliges the user to press a button or to close a
\* dialog
SpecGuiFair ==
    /\ InitGui
    /\ [][NextGui]_vars
    /\ WF_vars(check_queue)
    /\ WF_vars(run_comparison)


-----------------------------------------------------------------------------
(* Properties.                                                             *)

\* align_pages has returned: opcodes holds its plan
Returned == pc \in {"visuals", "done"}

\* each range starts where the previous one ended, the first at 0
Contiguous(plan) ==
    \A n \in 1..Len(plan) :
        /\ plan[n].i1 = (IF n = 1 THEN 0 ELSE plan[n - 1].i2)
        /\ plan[n].j1 = (IF n = 1 THEN 0 ELSE plan[n - 1].j2)
        /\ plan[n].i1 <= plan[n].i2
        /\ plan[n].j1 <= plan[n].j2

EndsAt(plan, la, lb) ==
    IF plan = <<>> THEN la = 0 /\ lb = 0
    ELSE plan[Len(plan)].i2 = la /\ plan[Len(plan)].j2 = lb

OpsHoldingA(plan, p) == {n \in 1..Len(plan) : plan[n].i1 <= p /\ p < plan[n].i2}
OpsHoldingB(plan, p) == {n \in 1..Len(plan) : plan[n].j1 <= p /\ p < plan[n].j2}

\* C1: the plan align_pages returns covers both documents: its a-ranges are
\* contiguous from 0 to len(A), its b-ranges from 0 to len(B), and every page
\* index of A and of B lies in exactly one opcode.
C1_Coverage ==
    Returned =>
        /\ Contiguous(opcodes)
        /\ EndsAt(opcodes, len_a, len_b)
        /\ \A p \in 0..(len_a - 1) : Cardinality(OpsHoldingA(opcodes, p)) = 1
        /\ \A p \in 0..(len_b - 1) : Cardinality(OpsHoldingB(opcodes, p)) = 1

C1_Witness ==
    /\ pc = "done"
    /\ Len(opcodes) >= 3
    /\ \E n \in 1..Len(opcodes) : opcodes[n].tag = "insert"
    /\ \E n \in 1..Len(opcodes) : opcodes[n].tag = "delete"

\* C2: with A empty and B not, the plan is the single opcode
\* insert(0,0,0,len(B)); with B empty and A not, the single opcode
\* delete(0,len(A),0,0); with both empty, the empty plan.
C2_EmptyInputs ==
    Returned =>
        /\ (len_a = 0 /\ len_b > 0) => opcodes = <<Op("insert", 0, 0, 0, len_b)>>
        /\ (len_b = 0 /\ len_a > 0) => opcodes = <<Op("delete", 0, len_a, 0, 0)>>
        /\ (len_a = 0 /\ len_b = 0) => opcodes = <<>>

C2_Witness ==
    /\ pc = "done"
    /\ len_a = 0
    /\ len_b = 3
    /\ opcodes = <<Op("insert", 0, 0, 0, 3)>>

\* C3 as stated: align_pages(X, X) on a non-empty X returns the single opcode
\* equal(0,len(X),0,len(X)).
C3_SingleEqual ==
    (Returned /\ doc_a = doc_b /\ len_a > 0) =>
        opcodes = <<Op("equal", 0, len_a, 0, len_a)>>

\* C3, amended: align_pages(X, X) on a non-empty X returns len(X) opcodes, all
\* 'equal', the k-th being equal(k,k+1,k,k+1): one per page, not one for all.
C3_EqualPerPage ==
    (Returned /\ doc_a = doc_b /\ len_a > 0) =>
        opcodes = [k \in 1..len_a |-> Op("equal", k - 1, k, k - 1, k)]

C3_Witness ==
    /\ pc = "done"
    /\ doc_a = doc_b
    /\ len_a = 3
    /\ Len(opcodes) = 3

IsPair(page, a, b) == page.position = "both" /\ page.idx_a = a /\ page.idx_b = b
IsOnlyB(page, b) == page.idx_a = NoPage /\ page.idx_b = b
IsOnlyA(page, a) == page.idx_a = a /\ page.idx_b = NoPage

\* C4: for A = ["alpha content", "beta content"] and B = ["alpha content",
\* "new page", "beta content"] the plan has an insert opcode covering exactly
\* B page 1, and the report has the pair (A 1, B 2), marked shifted, after the
\* pair (0, 0) and after the single page for B page 1.
C4_ScenarioA ==
    (pc = "done" /\ doc_a = ScenarioA_a /\ doc_b = ScenarioA_b) =>
        /\ \E n \in 1..Len(opcodes) :
              opcodes[n].tag = "insert" /\ opcodes[n].j1 = 1 /\ opcodes[n].j2 = 2
        /\ \E r \in 1..Len(output_doc) :
              /\ IsPair(output_doc[r], 1, 2)
              /\ output_doc[r].shifted
              /\ \E q \in 1..(r - 1) : IsPair(output_doc[q], 0, 0)
              /\ \E q \in 1..(r - 1) : IsOnlyB(output_doc[q], 1)

C4_Witness ==
    /\ pc = "done"
    /\ doc_a = ScenarioA_a
    /\ doc_b = ScenarioA_b
    /\ Len(output_doc) = 3

\* B is A without its middle page, and the page after it matches its
\* counterpart better than the removed page does, and above the threshold
OneInteriorPageRemoved ==
    /\ len_a = 3
    /\ len_b = 2
    /\ text_b = <<text_a[1], text_a[3]>>
    /\ Greater(ratio(text_a[3], text_b[2]), ratio(text_a[2], text_b[2]))
    /\ Greater(ratio(text_a[3], text_b[2]), SIMILARITY_THRESHOLD)

\* C5: when B is A with its one interior page removed (as for A = [x, y, z],
\* B = [x, z]), the plan is exactly equal(0,1,0,1), delete(1,2,1,1),
\* equal(2,3,1,2).
C5_ScenarioB ==
    (Returned /\ OneInteriorPageRemoved) =>
        opcodes = <<Op("equal", 0, 1, 0, 1), Op("delete", 1, 2, 1, 1),
                    Op("equal", 2, 3, 1, 2)>>

C5_Witness ==
    /\ pc = "done"
    /\ doc_a = ScenarioB_a
    /\ doc_b = ScenarioB_b
    /\ opcodes[2] = Op("delete", 1, 2, 1, 1)

\* the opcode a report page comes from, and its round k in that opcode's loop
OpOfPage(page) ==
    CHOOSE n \in 1..Len(opcodes) :
        IF page.idx_a # NoPage
        THEN opcodes[n].i1 <= page.idx_a /\ page.idx_a < opcodes[n].i2
        ELSE opcodes[n].j1 <= page.idx_b /\ page.idx_b < opcodes[n].j2

RoundOfPage(page) ==
    IF page.idx_a # NoPage
    THEN page.idx_a - opcodes[OpOfPage(page)].i1
    ELSE page.idx_b - opcodes[OpOfPage(page)].j1

\* C6: the report is in plan order: of two report pages the earlier one comes
\* from an earlier opcode, or from the same opcode and an earlier round; so the
\* A indices of the pages that have one increase strictly, and so do the B
\* indices.
C6_PlanOrder ==
    \A m, n \in 1..Len(output_doc) :
        m < n =>
            /\ \/ OpOfPage(output_doc[m]) < OpOfPage(output_doc[n])
               \/ /\ OpOfPage(output_doc[m]) = OpOfPage(output_doc[n])
                  /\ RoundOfPage(output_doc[m]) < RoundOfPage(output_doc[n])
            /\ (output_doc[m].idx_a # NoPage /\ output_doc[n].idx_a # NoPage)
                  => output_doc[m].idx_a < output_doc[n].idx_a
            /\ (output_doc[m].idx_b # NoPage /\ output_doc[n].idx_b # NoPage)
                  => output_doc[m].idx_b < output_doc[n].idx_b

C6_Witness ==
    /\ pc = "done"
    /\ Len(opcodes) >= 2
    /\ \E n \in 1..Len(opcodes) :
          opcodes[n].tag \in {"equal", "replace"}
          /\ opcodes[n].i2 - opcodes[n].i1 = 2
          /\ opcodes[n].j2 - opcodes[n].j1 = 1
    /\ Len(output_doc) >= 3

\* the pages the step adds at the end of the report
NewPages == SubSeq(output_doc', Len(output_doc) + 1, Len(output_doc'))

OldPagesKept == SubSeq(output_doc', 1, Len(output_doc)) = output_doc

\* the step consumes an opcode with one of these tags
Consumes(tags) ==
    pc = "visuals" /\ op_idx < Len(opcodes) /\ opcodes[op_idx + 1].tag \in tags
    /\ op_idx' = op_idx + 1

PairRounds(op, new) ==
    /\ Len(new) = Max(op.i2 - op.i1, op.j2 - op.j1)
    /\ \A k \in 0..(Len(new) - 1) :
          /\ (op.i1 + k < op.i2 /\ op.j1 + k < op.j2)
                => IsPair(new[k + 1], op.i1 + k, op.j1 + k)
          /\ (op.i1 + k >= op.i2)
                => /\ IsOnlyB(new[k + 1], op.j1 + k)
                   /\ new[k + 1].label = "Added"
                   /\ new[k + 1].position = "right"
          /\ (op.j1 + k >= op.j2)
                => /\ IsOnlyA(new[k + 1], op.i1 + k)
                   /\ new[k + 1].label = "Missing"
                   /\ new[k + 1].position = "left"

\* C7: an 'equal' or 'replace' opcode adds max(len(a_range), len(b_range))
\* pages: for k below both lengths the pair (i1+k, j1+k), and for every other k
\* a single page of the longer side (B alone "Added" on the right, A alone
\* "Missing" on the left).
C7_UnequalPairOp ==
    [][Consumes({"equal", "replace"})
          => OldPagesKept /\ PairRounds(opcodes[op_idx + 1], NewPages)]_vars

C7_Witness ==
    /\ pc = "done"
    /\ opcodes = <<Op("replace", 0, 1, 0, 2)>>
    /\ Len(output_doc) = 2
    /\ IsPair(output_doc[1], 0, 0)
    /\ IsOnlyB(output_doc[2], 1)

SinglePages(new, first, count, side) ==
    /\ Len(new) = count
    /\ \A k \in 0..(count - 1) :
          /\ IF side = "A" THEN IsOnlyA(new[k + 1], first + k)
                           ELSE IsOnlyB(new[k + 1], first + k)
          /\ new[k + 1].regions = <<>>
          /\ ~new[k + 1].shifted

\* C8: a 'delete' opcode adds exactly one single page per index of its
\* a_range, each with an A page and no B page; an 'insert' opcode one per index
\* of its b_range, each with a B page and no A page; none has a highlight
\* rectangle.
C8_SinglePages ==
    [][/\ Consumes({"delete"})
          => /\ OldPagesKept
             /\ SinglePages(NewPages, opcodes[op_idx + 1].i1,
                            opcodes[op_idx + 1].i2 - opcodes[op_idx + 1].i1, "A")
       /\ Consumes({"insert"})
          => /\ OldPagesKept
             /\ SinglePages(NewPages, opcodes[op_idx + 1].j1,
                            opcodes[op_idx + 1].j2 - opcodes[op_idx + 1].j1, "B")]_vars

C8_Witness ==
    /\ pc = "done"
    /\ \E n \in 1..Len(opcodes) : opcodes[n].tag = "insert"
    /\ \E n \in 1..Len(opcodes) :
          opcodes[n].tag = "delete" /\ opcodes[n].i2 - opcodes[n].i1 = 2
    /\ \E n \in 1..Len(output_doc) :
          IsOnlyA(output_doc[n], 2) /\ doc_a[3].words # <<>>

PagesShowingA(p) == {n \in 1..Len(output_doc) : output_doc[n].idx_a = p}
PagesShowingB(p) == {n \in 1..Len(output_doc) : output_doc[n].idx_b = p}

\* C9: every matched pair adds a page, changed or not, shifted or not: the
\* report has sum over the opcodes of max(len(a_range), len(b_range)) pages, and
\* for a plan that covers both documents every page of A and every page of B is
\* on exactly one report page.
C9_EveryPageOnce ==
    pc = "done" =>
        /\ Len(output_doc) =
              SumSeq([n \in 1..Len(opcodes) |->
                         Max(opcodes[n].i2 - opcodes[n].i1,
                             opcodes[n].j2 - opcodes[n].j1)])
        /\ \A p \in 0..(len_a - 1) : Cardinality(PagesShowingA(p)) = 1
        /\ \A p \in 0..(len_b - 1) : Cardinality(PagesShowingB(p)) = 1

C9_Witness ==
    /\ pc = "done"
    /\ \E n \in 1..Len(output_doc) :
          /\ output_doc[n].position = "both"
          /\ output_doc[n].regions = <<>>
          /\ ~output_doc[n].shifted
    /\ \E n \in 1..Len(output_doc) : output_doc[n].regions # <<>>

\* the word indices inside the ranges of the word opcodes with one of the tags
WordTexts(page) == [n \in 1..Len(page.words) |-> page.words[n].text]
WordOps == get_opcodes(WordTexts(doc_a[1]), WordTexts(doc_b[1]))
ChangedA(tags) ==
    {w \in 0..(Len(doc_a[1].words) - 1) :
        \E n \in 1..Len(WordOps) :
            WordOps[n].tag \in tags /\ WordOps[n].i1 <= w /\ w < WordOps[n].i2}
ChangedB(tags) ==
    {w \in 0..(Len(doc_b[1].words) - 1) :
        \E n \in 1..Len(WordOps) :
            WordOps[n].tag \in tags /\ WordOps[n].j1 <= w /\ w < WordOps[n].j2}

RegionKeys(regions) ==
    {<<regions[n].side, regions[n].kind, regions[n].w_idx>> : n \in 1..Len(regions)}

\* C10: the rectangles of a matched pair are exactly one "Removed" rectangle on
\* side A for each A word inside the a-range of a 'replace' or 'delete' word
\* opcode and one "Added" rectangle on side B for each B word inside the
\* b-range of a 'replace' or 'insert' word opcode, and none for the words of an
\* 'equal' opcode; [Hello] against [Hello, World] gives the one rectangle of
\* World, "Added" on side B.
C10_Regions ==
    pc = "done" =>
        /\ RegionKeys(output_doc[1].regions) =
              {<<"A", "Removed", w>> : w \in ChangedA({"replace", "delete"})}
              \cup {<<"B", "Added", w>> : w \in ChangedB({"replace", "insert"})}
        /\ Len(output_doc[1].regions) =
              Cardinality(ChangedA({"replace", "delete"}))
              + Cardinality(ChangedB({"replace", "insert"}))
        /\ \A w \in ChangedA({"equal"}) :
              <<"A", "Removed", w>> \notin RegionKeys(output_doc[1].regions)
        /\ \A w \in ChangedB({"equal"}) :
              <<"B", "Added", w>> \notin RegionKeys(output_doc[1].regions)
        /\ (WordTexts(doc_a[1]) = <<"Hello">> /\ WordTexts(doc_b[1]) = <<"Hello", "World">>)
              => /\ Len(output_doc[1].regions) = 1
                 /\ output_doc[1].regions[1].side = "B"
                 /\ output_doc[1].regions[1].kind = "Added"
                 /\ output_doc[1].regions[1].w_idx = 1

C10_Witness ==
    /\ pc = "done"
    /\ WordTexts(doc_a[1]) = <<"Hello">>
    /\ WordTexts(doc_b[1]) = <<"Hello", "World">>
    /\ Len(output_doc[1].regions) = 1

\* the (side, word index) pairs of the rectangles, in drawing order
RegionWords(regions) ==
    [n \in 1..Len(regions) |-> <<regions[n].side, regions[n].w_idx>>]

\* C11: the word diff of the two word lists of a pair covers both lists: the
\* a-ranges of its opcodes are contiguous from 0 to len(words_a), the b-ranges
\* from 0 to len(words_b), every word index lies in exactly one opcode, and the
\* rectangles drawn look up only word indices inside their list, each at most
\* once.
C11_WordCoverage ==
    pc = "done" =>
        /\ Contiguous(WordOps)
        /\ EndsAt(WordOps, Len(doc_a[1].words), Len(doc_b[1].words))
        /\ \A w \in 0..(Len(doc_a[1].words) - 1) :
              Cardinality(OpsHoldingA(WordOps, w)) = 1
        /\ \A w \in 0..(Len(doc_b[1].words) - 1) :
              Cardinality(OpsHoldingB(WordOps, w)) = 1
        /\ \A n \in 1..Len(output_doc[1].regions) :
              LET r == output_doc[1].regions[n]
              IN  /\ 0 <= r.w_idx
                  /\ r.w_idx < (IF r.side = "A" THEN Len(doc_a[1].words)
                                                ELSE Len(doc_b[1].words))
                  /\ \A m \in 1..Len(output_doc[1].regions) :
                        RegionWords(output_doc[1].regions)[m]
                           = RegionWords(output_doc[1].regions)[n] => m = n

C11_Witness ==
    /\ pc = "done"
    /\ WordTexts(doc_a[1]) = <<"Hello", "World", "Hello">>
    /\ WordTexts(doc_b[1]) = <<"World", "Hello", "World">>
    /\ Len(WordOps) = 3
    /\ Len(output_doc[1].regions) = 2

\* C12 as stated: the diff of any word list against itself, the empty list
\* included, is the single opcode equal(0,len,0,len).
C12_SingleEqualOp ==
    (pc = "done" /\ WordTexts(doc_a[1]) = WordTexts(doc_b[1])) =>
        WordOps = <<Op("equal", 0, Len(doc_a[1].words), 0, Len(doc_a[1].words))>>

\* C12, amended: the diff of a non-empty word list against itself is the
\* single opcode equal(0,len,0,len), the diff of the empty list against itself
\* has no opcode, and in both cases the pair gets no highlight rectangle.
C12_IdenticalWords ==
    (pc = "done" /\ WordTexts(doc_a[1]) = WordTexts(doc_b[1])) =>
        /\ doc_a[1].words # <<>> =>
              WordOps = <<Op("equal", 0, Len(doc_a[1].words), 0, Len(doc_a[1].words))>>
        /\ doc_a[1].words = <<>> => WordOps = <<>>
        /\ output_doc[1].regions = <<>>

C12_Witness ==
    /\ pc = "done"
    /\ WordTexts(doc_a[1]) = <<"Hello", "World", "Hello">>
    /\ WordTexts(doc_b[1]) = WordTexts(doc_a[1])
    /\ output_doc[1].regions = <<>>

\* r = s on fractions with positive denominators
FracEq(r, s) == r[1] * s[2] = s[1] * r[2]

One == <<1, 1>>
Zero == <<0, 1>>

\* the two texts have a token in common
ShareToken(a, b) == \E m \in 1..Len(a), n \in 1..Len(b) : a[m] = b[n]

\* not both texts are empty, and they have no token in common
Unrelated(a, b) == Len(a) + Len(b) > 0 /\ ~ShareToken(a, b)

\* C13 as stated: the ratio of the two page texts is the same in both argument
\* orders, so both orders fall on the same side of the threshold.
C13_Symmetric ==
    pc = "apply" =>
        /\ FracEq(current_similarity, ratio(text_b[1], text_a[1]))
        /\ Greater(current_similarity, SIMILARITY_THRESHOLD)
              <=> Greater(ratio(text_b[1], text_a[1]), SIMILARITY_THRESHOLD)

\* C13, amended: the two argument orders agree for equal texts, where both
\* give 1.0, and for texts without a common token (not both empty), where
\* both give 0.0; there both orders fall on the same side of the threshold.
C13_SymmetricAtEnds ==
    pc = "apply" =>
        /\ text_a[1] = text_b[1] =>
              /\ FracEq(current_similarity, One)
              /\ FracEq(ratio(text_b[1], text_a[1]), One)
        /\ Unrelated(text_a[1], text_b[1]) =>
              /\ FracEq(current_similarity, Zero)
              /\ FracEq(ratio(text_b[1], text_a[1]), Zero)
        /\ (text_a[1] = text_b[1] \/ Unrelated(text_a[1], text_b[1])) =>
              /\ FracEq(current_similarity, ratio(text_b[1], text_a[1]))
              /\ Greater(current_similarity, SIMILARITY_THRESHOLD)
                    <=> Greater(ratio(text_b[1], text_a[1]), SIMILARITY_THRESHOLD)

C13_Witness ==
    /\ pc = "apply"
    /\ text_a[1] = <<"c", "c">>
    /\ text_b[1] = TextAb100
    /\ Unrelated(text_a[1], text_b[1])
    /\ FracEq(current_similarity, Zero)
    /\ FracEq(ratio(text_b[1], text_a[1]), Zero)

\* C14: the ratio of a page text with itself is 1.0, for the empty text too,
\* so align_pages on two pages of equal text, two blank pages included, finds
\* no better alignment and returns equal(0,1,0,1), never a replace.
C14_SelfRatio ==
    /\ (pc = "apply" /\ text_a = text_b) =>
          /\ FracEq(current_similarity, One)
          /\ best_match.type = "equal"
    /\ (pc = "visuals" /\ text_a = text_b) =>
          opcodes = <<Op("equal", 0, 1, 0, 1)>>

C14_Witness ==
    /\ pc = "visuals"
    /\ text_a = << <<>> >>
    /\ text_b = << <<>> >>
    /\ opcodes = <<Op("equal", 0, 1, 0, 1)>>

\* the skips the two lookahead loops try at cursor (i, j): range(1, min(...))
SkipsB == 1..(Min(LOOKAHEAD_WINDOW, len_b - j) - 1)
SkipsA == 1..(Min(LOOKAHEAD_WINDOW, len_a - i) - 1)

\* the ratio of the pages under the cursors, and of the probed pairs
CurrentRatio == ratio(text_a[i + 1], text_b[j + 1])
RatioB(k) == ratio(text_a[i + 1], text_b[j + k + 1])
RatioA(k) == ratio(text_a[i + k + 1], text_b[j + 1])

\* strictly above both the current ratio and the threshold
Qualifies(r) == Greater(r, CurrentRatio) /\ Greater(r, SIMILARITY_THRESHOLD)

QualB == {k \in SkipsB : Qualifies(RatioB(k))}
QualA == {k \in SkipsA : Qualifies(RatioA(k))}

\* the qualifying skip of the highest ratio, the smallest of those
TopB == CHOOSE k \in QualB :
            \A m \in QualB : /\ ~Greater(RatioB(m), RatioB(k))
                             /\ FracEq(RatioB(m), RatioB(k)) => k <= m
TopA == CHOOSE k \in QualA :
            \A m \in QualA : /\ ~Greater(RatioA(m), RatioA(k))
                             /\ FracEq(RatioA(m), RatioA(k)) => k <= m

\* the step appends one opcode to alignments and keeps the ones before it
Emits ==
    /\ Len(alignments') = Len(alignments) + 1
    /\ SubSeq(alignments', 1, Len(alignments)) = alignments

Emitted == alignments'[Len(alignments')]

\* C15 as stated: with both cursors in range, every skip k from 1 to
\* min(LOOKAHEAD_WINDOW, len(B)-j) whose target page exists is considered, and
\* likewise into A, so a qualifying page 3 pages ahead causes a skip; for
\* A = [ab] and B = [c, c, c, ab] the plan starts with insert(0,0,0,3).
C15_WindowOfThree ==
    /\ pc = "apply" =>
          /\ \A k \in 1..Min(LOOKAHEAD_WINDOW, len_b - j) :
                (j + k < len_b /\ Qualifies(RatioB(k)))
                   => best_match.type \in {"insert", "delete"}
          /\ \A k \in 1..Min(LOOKAHEAD_WINDOW, len_a - i) :
                (i + k < len_a /\ Qualifies(RatioA(k)))
                   => best_match.type \in {"insert", "delete"}
    /\ (pc = "visuals" /\ doc_a = <<PageAB>>
           /\ doc_b = <<PageC, PageC, PageC, PageAB>>) =>
          opcodes = <<Op("insert", 0, 0, 0, 3), Op("equal", 0, 1, 3, 4)>>

\* C16 as stated: when an insert candidate and a delete candidate both
\* qualify, insert is emitted only if its ratio is strictly the greater; on
\* equal ratios delete is emitted.
C16_TieGivesDelete ==
    [][(pc = "apply" /\ QualB # {} /\ QualA # {}) =>
          /\ Emits
          /\ Emitted.tag = (IF Greater(RatioB(TopB), RatioA(TopA))
                            THEN "insert" ELSE "delete")]_vars

\* C16, amended: when an insert candidate and a delete candidate both
\* qualify, delete is emitted only if its ratio is strictly the greater; on
\* equal ratios insert is emitted.
C16_TieGivesInsert ==
    [][(pc = "apply" /\ QualB # {} /\ QualA # {}) =>
          /\ Emits
          /\ Emitted.tag = (IF Greater(RatioA(TopA), RatioB(TopB))
                            THEN "delete" ELSE "insert")]_vars

C16_Witness ==
    /\ pc = "align"
    /\ doc_a = <<PageAB, PageC>>
    /\ doc_b = <<PageC, PageAB>>
    /\ alignments = <<Op("insert", 0, 0, 0, 1)>>
    /\ FracEq(ratio(text_a[1], text_b[2]), ratio(text_a[2], text_b[1]))

\* C17: a step emits an insert or a delete exactly when some probed pair has
\* a ratio strictly above both the current ratio and 0.6; the opcode then
\* skips to the probed page of the highest such ratio, the nearest one among
\* equal ratios on its side, and no probed page of the other side has a
\* higher ratio.
C17_SkipIffQualifies ==
    [][pc = "apply" =>
          /\ Emits
          /\ Emitted.tag \in {"insert", "delete"} <=> (QualB \cup QualA) # {}
          /\ Emitted.tag = "insert" =>
                /\ QualB # {}
                /\ Emitted = Op("insert", i, i, j, j + TopB)
                /\ \A k \in QualA : ~Greater(RatioA(k), RatioB(TopB))
          /\ Emitted.tag = "delete" =>
                /\ QualA # {}
                /\ Emitted = Op("delete", i, i + TopA, j, j)
                /\ \A k \in QualB : ~Greater(RatioB(k), RatioA(TopA))]_vars

C17_Witness ==
    /\ pc = "align"
    /\ doc_a = <<PageAB>>
    /\ doc_b = <<PageC, PageABC, PageAB>>
    /\ alignments = <<Op("insert", 0, 0, 0, 2)>>

\* every 'equal' opcode pairs pages of ratio > 0.6, every 'replace' <= 0.6
PairsRespectThreshold(plan) ==
    \A n \in 1..Len(plan) :
        /\ plan[n].tag = "equal" =>
              Greater(ratio(text_a[plan[n].i1 + 1], text_b[plan[n].j1 + 1]),
                      SIMILARITY_THRESHOLD)
        /\ plan[n].tag = "replace" =>
              ~Greater(ratio(text_a[plan[n].i1 + 1], text_b[plan[n].j1 + 1]),
                       SIMILARITY_THRESHOLD)

\* C18: a step at which no probed pair qualifies emits equal(i,i+1,j,j+1) if
\* the current ratio is strictly above 0.6 and replace(i,i+1,j,j+1) otherwise
\* (also at exactly 0.6), and moves both cursors by one; so every 'equal'
\* opcode pairs pages of ratio > 0.6 and every 'replace' opcode pages of
\* ratio <= 0.6.
C18_EqualOrReplace ==
    [][/\ (pc = "apply" /\ (QualB \cup QualA) = {}) =>
             /\ Emits
             /\ Emitted = Op(IF Greater(CurrentRatio, SIMILARITY_THRESHOLD)
                             THEN "equal" ELSE "replace", i, i + 1, j, j + 1)
             /\ i' = i + 1
             /\ j' = j + 1
       /\ PairsRespectThreshold(alignments')]_vars

C18_Witness ==
    /\ pc = "align"
    /\ doc_a = <<PageAbcde>>
    /\ doc_b = <<PageAbcxy>>
    /\ FracEq(ratio(text_a[1], text_b[1]), SIMILARITY_THRESHOLD)
    /\ alignments = <<Op("replace", 0, 1, 0, 1)>>

\* the step appends an opcode of this tag from the lookahead
LookaheadStep(tag) ==
    pc = "apply" /\ Len(alignments') = Len(alignments) + 1 /\ Emitted.tag = tag

\* C19: a lookahead step moves only the skipped cursor: the step that emits
\* insert(i,i,j,j+k) sets j to j+k and keeps i, the step that emits
\* delete(i,i+k,j,j) sets i to i+k and keeps j; both keep the two documents
\* and the opcodes emitted before.
C19_OnlySkippedCursor ==
    [][/\ LookaheadStep("insert") =>
             /\ Emitted.i1 = i /\ Emitted.i2 = i /\ Emitted.j1 = j
             /\ Emitted.j2 > j
             /\ j' = Emitted.j2
             /\ i' = i
             /\ Emits
             /\ UNCHANGED <<doc_a, doc_b>>
       /\ LookaheadStep("delete") =>
             /\ Emitted.j1 = j /\ Emitted.j2 = j /\ Emitted.i1 = i
             /\ Emitted.i2 > i
             /\ i' = Emitted.i2
             /\ j' = j
             /\ Emits
             /\ UNCHANGED <<doc_a, doc_b>>]_vars

C19_Witness ==
    /\ pc = "align"
    /\ doc_a = <<PageC, PageABC, PageAB>>
    /\ doc_b = <<PageAB>>
    /\ alignments = <<Op("delete", 0, 2, 0, 0)>>
    /\ i = 2
    /\ j = 0

WellFormed(op) ==
    /\ op.tag = "insert" => op.i1 = op.i2 /\ op.j1 < op.j2
    /\ op.tag = "delete" => op.i1 < op.i2 /\ op.j1 = op.j2
    /\ op.tag \in {"equal", "replace"} => op.i1 < op.i2 /\ op.j1 < op.j2
    /\ ~(op.i1 = op.i2 /\ op.j1 = op.j2)
    /\ op.tag \in {"insert", "delete", "equal", "replace"}

\* C20: every opcode align_pages emits, and so every opcode of the plan it
\* returns, is well formed: an insert has an empty a-range and a non-empty
\* b-range, a delete a non-empty a-range and an empty b-range, an equal or a
\* replace two non-empty ranges; none has two empty ranges.
C20_WellFormedOps ==
    /\ \A n \in 1..Len(alignments) : WellFormed(alignments[n])
    /\ \A n \in 1..Len(opcodes) : WellFormed(opcodes[n])

C20_Witness ==
    /\ pc = "visuals"
    /\ opcodes = <<Op("insert", 0, 0, 0, 1), Op("equal", 0, 1, 1, 2),
                   Op("delete", 1, 2, 2, 2)>>

\* C21: a report page is marked shifted exactly when it is a matched pair
\* whose two page indices differ; a pair of equal indices is not marked, and
\* a single page (one side only) is not marked.
C21_ShiftedIffIndicesDiffer ==
    \A n \in 1..Len(output_doc) :
        /\ output_doc[n].shifted <=>
              /\ output_doc[n].position = "both"
              /\ output_doc[n].idx_a # NoPage
              /\ output_doc[n].idx_b # NoPage
              /\ output_doc[n].idx_a # output_doc[n].idx_b
        /\ (output_doc[n].idx_a = NoPage \/ output_doc[n].idx_b = NoPage)
              => ~output_doc[n].shifted

C21_Witness ==
    /\ pc = "done"
    /\ opcodes = <<Op("delete", 0, 1, 0, 0), Op("equal", 1, 2, 0, 2)>>
    /\ Len(output_doc) = 3
    /\ IsOnlyA(output_doc[1], 0) /\ ~output_doc[1].shifted
    /\ IsPair(output_doc[2], 1, 0) /\ output_doc[2].shifted
    /\ IsOnlyB(output_doc[3], 1) /\ ~output_doc[3].shifted

\* the source page of a side of a report page, and the place it is shown at
SourcePage(page, side) ==
    IF side = "A" THEN doc_a[page.idx_a + 1] ELSE doc_b[page.idx_b + 1]
Panel(page, side) == IF side = "A" THEN page.panel_a ELSE page.panel_b

\* the box of the word a rectangle was drawn for, as extracted from its page
NativeBox(page, r) == SourcePage(page, r.side).words[r.w_idx + 1].bbox

\* the scale factors of a side, output size over page size, and its offsets,
\* the corner of its panel
ScaleX(page, side) ==
    <<Panel(page, side)[3] - Panel(page, side)[1], SourcePage(page, side).width>>
ScaleY(page, side) ==
    <<Panel(page, side)[4] - Panel(page, side)[2], SourcePage(page, side).height>>
OffsetX(page, side) == Panel(page, side)[1]
OffsetY(page, side) == Panel(page, side)[2]

\* a coordinate of a rectangle as a fraction: the vector report keeps points
Coordinate(v) == IF pc = "done" THEN <<v, 1>> ELSE v

\* out = x * scale + offset
MapsTo(out, x, scale, offset) ==
    FracEq(Coordinate(out), <<x * scale[1] + offset * scale[2], scale[2]>>)

\* the report pages that show a page of A next to a page of B
PairPages == {n \in 1..Len(output_doc) : output_doc[n].position = "both"}

\* C22: on every report page of a pair, every rectangle is the box of its
\* word mapped corner by corner by x' = x * scale_x + offset_x and
\* y' = y * scale_y + offset_y with the scale factors and offsets of the
\* word's side, those that place the page of that side on the report page;
\* the x offset of side B is that of side A plus the output width of page A,
\* plus the gap in the vector report; the y offset is the same on both
\* sides; the vector report shows the pages at scale 1.  Pages shown alone
\* carry no rectangle.
C22_BoxMapping ==
    pc \in {"done", "raster_done", "raster_raised"} =>
        /\ \A p \in PairPages :
              LET page == output_doc[p]
              IN  /\ \A n \in 1..Len(page.regions) :
                        LET r == page.regions[n]
                        IN  /\ MapsTo(r.bbox[1], NativeBox(page, r)[1],
                                      ScaleX(page, r.side), OffsetX(page, r.side))
                            /\ MapsTo(r.bbox[2], NativeBox(page, r)[2],
                                      ScaleY(page, r.side), OffsetY(page, r.side))
                            /\ MapsTo(r.bbox[3], NativeBox(page, r)[3],
                                      ScaleX(page, r.side), OffsetX(page, r.side))
                            /\ MapsTo(r.bbox[4], NativeBox(page, r)[4],
                                      ScaleY(page, r.side), OffsetY(page, r.side))
                  /\ OffsetX(page, "B") =
                        OffsetX(page, "A") + (page.panel_a[3] - page.panel_a[1])
                        + (IF pc = "done" THEN gap ELSE 0)
                  /\ OffsetY(page, "B") = OffsetY(page, "A")
                  /\ pc = "done" =>
                        \A side \in {"A", "B"} :
                            /\ FracEq(ScaleX(page, side), One)
                            /\ FracEq(ScaleY(page, side), One)
        /\ \A n \in 1..Len(output_doc) :
              n \notin PairPages => output_doc[n].regions = <<>>

\* a raster report page whose two sides differ in all four scale factors
C22_Witness ==
    /\ pc = "raster_done"
    /\ doc_a[1].width = 80 /\ doc_a[1].img = <<Image(84, 105)>>
    /\ doc_a[1].height = 100
    /\ doc_b[1].width = 100 /\ doc_b[1].img = <<Image(104, 125)>>
    /\ doc_b[1].height = 120
    /\ WordTexts(doc_a[1]) = <<"Hello", "World">>
    /\ WordTexts(doc_b[1]) = <<"World", "Hello">>
    /\ PairPages = {1}
    /\ \E n \in 1..Len(output_doc[1].regions) :
          LET r == output_doc[1].regions[n]
          IN  /\ r.side = "B"
              /\ r.w_idx = 0
              /\ FracEq(r.bbox[1], <<84, 1>>)
              /\ FracEq(r.bbox[2], <<1250, 120>>)
              /\ FracEq(r.bbox[3], <<9232, 100>>)
              /\ FracEq(r.bbox[4], <<2500, 120>>)
    /\ \E n \in 1..Len(output_doc[1].regions) :
          LET r == output_doc[1].regions[n]
          IN  /\ r.side = "A"
              /\ r.w_idx = 1
              /\ FracEq(r.bbox[1], <<840, 80>>)
              /\ FracEq(r.bbox[2], <<1050, 100>>)
              /\ FracEq(r.bbox[3], <<18 * 84, 80>>)
              /\ FracEq(r.bbox[4], <<2100, 100>>)

\* an insert or delete emitted by the lookahead: the tail branches emit theirs
\* only once the other document is used up
IsLookaheadOp(op) ==
    \/ op.tag = "insert" /\ op.i1 < len_a
    \/ op.tag = "delete" /\ op.j1 < len_b

\* C23: in the plan align_pages returns, an insert or delete of the lookahead
\* is never the last opcode; the opcode after it is another one of the
\* lookahead or an 'equal', never a 'replace' and never a tail opcode, so the
\* first equal/replace after a run of them is an 'equal'.  The cursors a skip
\* reaches are both in range, on a pair of pages of ratio > 0.6.
C23_SkipThenEqual ==
    /\ Returned =>
          \A n \in 1..Len(opcodes) :
              IsLookaheadOp(opcodes[n]) =>
                  /\ n < Len(opcodes)
                  /\ opcodes[n + 1].tag # "replace"
                  /\ opcodes[n + 1].tag \in {"insert", "delete"}
                        => IsLookaheadOp(opcodes[n + 1])
    /\ (pc = "align" /\ alignments # <<>>
           /\ IsLookaheadOp(alignments[Len(alignments)])) =>
          /\ i < len_a
          /\ j < len_b
          /\ Greater(CurrentRatio, SIMILARITY_THRESHOLD)

C23_Witness ==
    /\ pc = "visuals"
    /\ doc_a = <<PageC, PageAB>>
    /\ doc_b = <<PageABC, PageAB>>
    /\ opcodes = <<Op("delete", 0, 1, 0, 0), Op("insert", 1, 1, 0, 1),
                   Op("equal", 1, 2, 1, 2)>>

OnePageEach(op) == op.i2 = op.i1 + 1 /\ op.j2 = op.j1 + 1

\* C24: every 'equal' and 'replace' opcode of align_pages covers exactly one
\* page of each side, adjacent opcodes of one tag staying separate; so in the
\* report of such a plan every single page comes from an 'insert' or a
\* 'delete' opcode, never from the one-sided branches of a pair opcode.
C24_OnePagePairOps ==
    /\ \A n \in 1..Len(alignments) :
          alignments[n].tag \in {"equal", "replace"} => OnePageEach(alignments[n])
    /\ \A n \in 1..Len(opcodes) :
          opcodes[n].tag \in {"equal", "replace"} => OnePageEach(opcodes[n])
    /\ \A n \in 1..Len(output_doc) :
          output_doc[n].position # "both"
             => opcodes[OpOfPage(output_doc[n])].tag \in {"insert", "delete"}

C24_Witness ==
    /\ pc = "done"
    /\ opcodes = <<Op("equal", 0, 1, 0, 1), Op("equal", 1, 2, 1, 2),
                   Op("insert", 2, 2, 2, 4)>>
    /\ Len(output_doc) = 4
    /\ output_doc[2].position = "both"
    /\ output_doc[4].position = "right"

\* the pages of B covered by 'insert' opcodes, and the pages of A covered by
\* 'delete' opcodes, before opcode n of the plan
InsertedBefore(n) ==
    SumSeq([m \in 1..(n - 1) |->
               IF opcodes[m].tag = "insert" THEN opcodes[m].j2 - opcodes[m].j1 ELSE 0])
DeletedBefore(n) ==
    SumSeq([m \in 1..(n - 1) |->
               IF opcodes[m].tag = "delete" THEN opcodes[m].i2 - opcodes[m].i1 ELSE 0])

\* C25: for every matched pair of the report of an align_pages plan,
\* idx_b - idx_a is the number of B pages inserted earlier in the plan minus
\* the number of A pages deleted earlier; the pair is marked shifted exactly
\* when the two numbers differ.
C25_ShiftIsNetSkips ==
    \A n \in 1..Len(output_doc) :
        output_doc[n].position = "both" =>
            /\ output_doc[n].idx_b - output_doc[n].idx_a =
                  InsertedBefore(OpOfPage(output_doc[n]))
                  - DeletedBefore(OpOfPage(output_doc[n]))
            /\ output_doc[n].shifted <=>
                  InsertedBefore(OpOfPage(output_doc[n]))
                  # DeletedBefore(OpOfPage(output_doc[n]))

C25_Witness ==
    /\ pc = "done"
    /\ doc_a = <<PageC, PageAB>>
    /\ doc_b = <<PageABC, PageAB>>
    /\ Len(output_doc) = 3
    /\ IsPair(output_doc[3], 1, 1)
    /\ ~output_doc[3].shifted
    /\ InsertedBefore(3) = 1
    /\ DeletedBefore(3) = 1

\* C26: throughout align_pages 0 <= i <= len(A) and 0 <= j <= len(B); when a
\* pair of pages is compared both cursors are valid indices, every page a
\* lookahead loop reads (i + k in A, j + k in B) is a valid index, and so is
\* the page the lookahead settles on; also for documents shorter than the
\* lookahead window.
C26_IndicesInRange ==
    /\ 0 <= i /\ i <= len_a
    /\ 0 <= j /\ j <= len_b
    /\ pc = "apply" =>
          /\ i < len_a
          /\ j < len_b
          /\ \A k \in SkipsB : 0 <= j + k /\ j + k < len_b
          /\ \A k \in SkipsA : 0 <= i + k /\ i + k < len_a
          /\ i <= best_match.i /\ best_match.i < len_a
          /\ j <= best_match.j /\ best_match.j < len_b

C26_Witness ==
    /\ pc = "apply"
    /\ len_a = 1
    /\ len_b = 2
    /\ j = 0
    /\ best_match.type = "insert"
    /\ best_match.j = len_b - 1

\* C27: align_pages terminates on every finite input: a step at the head of
\* the loop either breaks or goes on to compare the pages, the step that
\* applies the comparison strictly increases i + j, the plan never has more
\* than len(A) + len(B) ops, and the call eventually returns.
C27_Terminates ==
    /\ [][InLoop => pc' \in {"break", "apply"}]_vars
    /\ [][pc = "apply" => (pc' = "align" /\ i' + j' > i + j)]_vars
    /\ [](Len(alignments) <= len_a + len_b)
    /\ <>(pc = "visuals")

C27_Witness ==
    /\ pc = "visuals"
    /\ len_a = MaxPages + 1
    /\ len_b = MaxPages - 1
    /\ Len(alignments) >= 3
    /\ \E n \in 1..Len(alignments) : alignments[n].tag = "delete"

\* worker threads that have not ended
LiveThreads == {t \in 1..Len(threads) : threads[t].pc # "done"}

\* a comparison is in flight: started, its result not yet taken off the queue
InFlight == LiveThreads # {} \/ app.result_queue # <<>>

\* C28: at most one comparison is in flight: there is never more than one
\* live worker thread, the queue never holds more than one message (and none
\* while a worker is live), every started comparison is either in flight or
\* handled, and the Compare button is disabled from start_comparison until
\* the main loop has taken the result off the queue.
C28_OneComparisonInFlight ==
    /\ Cardinality(LiveThreads) <= 1
    /\ Len(app.result_queue) <= 1
    /\ Cardinality(LiveThreads) + Len(app.result_queue) <= 1
    /\ Len(threads) = Len(mainloop.handled) + Cardinality(LiveThreads)
                        + Len(app.result_queue)
    /\ InFlight => app.btn_compare = "disabled"
    /\ mainloop.pc = "check_queue" => app.btn_compare = "disabled"

C28_Witness ==
    /\ Len(threads) = 2
    /\ threads[1].pc = "done"
    /\ threads[2].pc = "report"
    /\ mainloop.handled = <<"success">>
    /\ mainloop.after = 1
    /\ app.btn_compare = "disabled"

\* the error dialog of update_ui_error is open
ErrorDialog == mainloop.pc = "update_ui_error"

\* update_ui_success was left by an exception: Compare was not set to "normal"
PreviewFailed == mainloop.callback_exceptions > 0

\* C29 as stated: a Compare button that is disabled is eventually enabled
\* again, whatever the result of the comparison.
C29_AlwaysReenabled ==
    (app.btn_compare = "disabled") ~> (app.btn_compare = "normal")

\* C29, amended: every run of run_comparison puts exactly one message, one of
\* success, empty and error, also when compare_visuals or the preview raises;
\* while a comparison is in flight a call of check_queue is running or
\* scheduled; the call that takes an empty message off the queue enables
\* Compare; the call that takes a success message enables the report buttons
\* and then enables Compare, unless displaying the previews raises, and then
\* Compare stays disabled from there on; the call that takes an error message
\* opens the error dialog with Compare still disabled, and closing the
\* dialog enables it; a disabled Compare button is eventually enabled again,
\* or waits behind the error dialog, or was left disabled by a preview that
\* raised.
C29_ComparisonEnds ==
    /\ [](\A t \in 1..Len(threads) :
              threads[t].puts = IF threads[t].pc = "done" THEN 1 ELSE 0)
    /\ [](\A n \in 1..Len(app.result_queue) : app.result_queue[n] \in ResultTypes)
    /\ [](InFlight => (mainloop.pc = "check_queue" \/ mainloop.after > 0))
    /\ [][Len(mainloop'.handled) > Len(mainloop.handled)
            => /\ app.btn_compare = "disabled"
               /\ ~PreviewFailed
               /\ CASE Head(app.result_queue) = "error"
                         -> ErrorDialog' /\ app'.btn_compare = "disabled"
                                         /\ ~PreviewFailed'
                    [] Head(app.result_queue) = "empty"
                         -> ~ErrorDialog' /\ app'.btn_compare = "normal"
                                          /\ ~PreviewFailed'
                    [] OTHER
                         -> /\ ~ErrorDialog'
                            /\ app'.btn_download = "normal"
                            /\ app'.btn_open = "normal"
                            /\ app'.btn_save_as = "normal"
                            /\ PreviewFailed' <=> app'.btn_compare = "disabled"]_vars
    /\ [](ErrorDialog => (app.btn_compare = "disabled" /\ ~InFlight))
    /\ [][(ErrorDialog /\ ~ErrorDialog') => app'.btn_compare = "normal"]_vars
    /\ [][PreviewFailed => (PreviewFailed' /\ app'.btn_compare = "disabled")]_vars
    /\ (app.btn_compare = "disabled")
           ~> (app.btn_compare = "normal" \/ ErrorDialog \/ PreviewFailed)

C29_Witness ==
    /\ PreviewFailed
    /\ mainloop.handled = <<"error", "success">>
    /\ mainloop.pc = "idle"
    /\ mainloop.after = 0
    /\ app.btn_compare = "disabled"
    /\ app.btn_download = "normal"
    /\ app.result_queue = <<>>
    /\ \A t \in 1..Len(threads) : threads[t].pc = "done" /\ threads[t].puts = 1

\* the three report buttons are enabled
ReportEnabled ==
    /\ app.btn_download = "normal"
    /\ app.btn_open = "normal"
    /\ app.btn_save_as = "normal"

\* the three report buttons are disabled
ReportDisabled ==
    /\ app.btn_download = "disabled"
    /\ app.btn_open = "disabled"
    /\ app.btn_save_as = "disabled"

\* the result of the comparison that finished last, "none" before the first
LastResult ==
    IF mainloop.handled = <<>> THEN "none"
    ELSE mainloop.handled[Len(mainloop.handled)]

\* C30: the report buttons are all enabled or all disabled; they are enabled
\* exactly when no comparison is running and the comparison that finished
\* last ended with success: so they are disabled before the first
\* comparison, while one is running, and after an empty or error outcome
\* whatever came before.
C30_ReportButtonsAfterSuccess ==
    /\ ReportEnabled \/ ReportDisabled
    /\ ReportEnabled <=> (~InFlight /\ LastResult = "success")
    /\ InFlight => ReportDisabled
    /\ LastResult \in {"none", "empty", "error"} => ReportDisabled

C30_Witness ==
    /\ mainloop.handled = <<"success", "error">>
    /\ app.btn_compare = "normal"
    /\ ReportDisabled

====
